---- MODULE Spec2Model ----
(***************************************************************************)
(* Model of the point-of-sale backend of server/routes.ts: the request     *)
(* middleware (requireAuth, requireStore, validateStoreAccess,             *)
(* requireRole), the POST /api/sales handler with                          *)
(* MemStorage.processSaleAtomic and the storage methods it calls, the      *)
(* product and customer routes and the inventory adjustment.               *)
(*                                                                         *)
(* Every handler is an async function.  Its code between two awaits runs   *)
(* without interruption; at every await the handler is suspended and the   *)
(* handlers of other requests may run.  One action of the model is one     *)
(* such uninterrupted block of one request.                                *)
(*                                                                         *)
(* Units.  Quantities and stock are decimal strings with three places:     *)
(* they are held as integers in thousandths (stock "2.000" is 2000).       *)
(* Prices and stored money are decimal strings with two places: they are   *)
(* held as integers in cents.  The unrounded amounts the handler computes  *)
(* (lineTotal, subtotal) are held in units of cent/1000.  toFixed(2) is    *)
(* rounding to the nearest cent; where the exact amount lies half-way      *)
(* between two cents the program's result depends on the double nearest    *)
(* to it, and the model rounds up.  No amount of the inputs below is such  *)
(* a tie.                                                                  *)
(***************************************************************************)
EXTENDS Integers, Sequences, FiniteSets, TLC

(***************************************************************************)
(* Bounds of the model.                                                    *)
(***************************************************************************)
MaxReq == 2
MaxLines == 3

ReqIds == 1..MaxReq

StoreIds == {"A", "B"}
UserIds == {"seed", "admin", "ownerA", "cashA", "ownerB", "offA"}
Tokens == {"tSeed", "tAdmin", "tOwnerA", "tCashA", "tOwnerB", "tBad"}
CustomerIds == {"c1", "c2", "c3"}
ProductIds == {"p1", "p2", "p3", "p4", "p5"}

VARIABLES
    users,              \* MemStorage.users: id -> User
    sessions,           \* sessions: token -> {userId, username, role}
    customers,          \* MemStorage.customers: id -> Customer
    products,           \* MemStorage.products: id -> Product
    sales,              \* MemStorage.sales: id -> Sale
    saleItems,          \* MemStorage.saleItems: sale id -> SaleItem[]
    inventoryMovements, \* MemStorage.inventoryMovements: product id -> InventoryMovement[]
    reqs,               \* the requests: position in the handler, inputs, locals, response
    suppliers,          \* MemStorage.suppliers: id -> Supplier
    categories,         \* MemStorage.categories: id -> Category
    cashFlowEntries,    \* MemStorage.cashFlowEntries: CashFlowEntry[]
    cartItems,          \* POSInterface: the cartItems state of the client
    click               \* POSInterface: the callback the client ran last, with its arguments

\* the state of the POSInterface component
client == <<cartItems, click>>

\* the collections and the client state that the routes of sales, products,
\* customers, users and sessions do not touch
aside == <<suppliers, categories, cashFlowEntries, client>>

vars == <<users, sessions, customers, products, sales, saleItems, inventoryMovements, reqs,
          aside>>

store == <<users, sessions, customers, products, sales, saleItems, inventoryMovements>>

(***************************************************************************)
(* Numbers.                                                                *)
(***************************************************************************)
TaxRateNum == 85
TaxRateDen == 1000
QtyScale == 1000

\* x * num / den rounded to the nearest integer, halves up (x >= 0); the
\* product is split so that no intermediate value leaves 32 bits.
RoundRatio(x, num, den) ==
    (x \div den) * num + (((x % den) * num) + (den \div 2)) \div den

\* (amount in cent/1000).toFixed(2), in cents
toFixed2(x) == RoundRatio(x, 1, QtyScale)

\* (subtotal * taxRate).toFixed(2), in cents
TaxToFixed2(subtotal) == RoundRatio(subtotal, TaxRateNum, TaxRateDen * QtyScale)

\* (subtotal + subtotal * taxRate).toFixed(2), in cents
TotalToFixed2(subtotal) ==
    RoundRatio(subtotal, TaxRateDen + TaxRateNum, TaxRateDen * QtyScale)

(***************************************************************************)
(* The entity store (class MemStorage).  A Map is a function whose domain  *)
(* is the set of keys present.                                             *)
(***************************************************************************)
MapSet(m, k, v) == [x \in (DOMAIN m) \cup {k} |-> IF x = k THEN v ELSE m[x]]

MapDelete(m, k) == [x \in (DOMAIN m) \ {k} |-> m[x]]

\* this.saleItems.get(saleId) || []
getSaleItems(saleId) == IF saleId \in DOMAIN saleItems THEN saleItems[saleId] ELSE <<>>

\* this.inventoryMovements.get(productId) || []
getInventoryMovements(productId) ==
    IF productId \in DOMAIN inventoryMovements THEN inventoryMovements[productId] ELSE <<>>

createSale(id, insertSale) == MapSet(sales, id, insertSale)

\* (a createSaleItem that keeps only the last item of a sale)
createSaleItemLastOnly(insertSaleItem) ==
    MapSet(saleItems, insertSaleItem.saleId, <<insertSaleItem>>)

createSaleItem(insertSaleItem) ==
    MapSet(saleItems, insertSaleItem.saleId,
           Append(getSaleItems(insertSaleItem.saleId), insertSaleItem))

\* (a createInventoryMovement that keeps only the last movement of a product)
createInventoryMovementLastOnly(insertMovement) ==
    MapSet(inventoryMovements, insertMovement.productId, <<insertMovement>>)

createInventoryMovement(insertMovement) ==
    MapSet(inventoryMovements, insertMovement.productId,
           Append(getInventoryMovements(insertMovement.productId), insertMovement))

\* newStock = parseFloat(product.stock) + quantity, stored with toFixed(3);
\* an absent product leaves the map as it is (the method returns false)
updateProductStock(productId, quantity) ==
    IF productId \notin DOMAIN products
    THEN products
    ELSE [products EXCEPT ![productId].stock = @ + quantity]

(***************************************************************************)
(* Middleware.  Each gives the response it answers with, or NoResp when it *)
(* calls next().                                                           *)
(***************************************************************************)
NoUser == [userId |-> "", username |-> "", role |-> ""]

NoResp == [status |-> 0, message |-> ""]

Resp(status, message) == [status |-> status, message |-> message]

\* sessionId ? sessions.get(sessionId) : null
SessionOf(token) == IF token \in DOMAIN sessions THEN sessions[token] ELSE NoUser

\* (a requireAuth that lets every request through)
requireAuthAnyToken(token) == NoResp

requireAuth(token) ==
    IF SessionOf(token) = NoUser THEN Resp(401, "Authentication required") ELSE NoResp

requireStore(storeId) ==
    IF storeId = "" THEN Resp(400, "Store ID is required") ELSE NoResp

AccessDenied == "Access denied: You don't have permission to access this store"

\* a gate that does not compare the user's store with the requested store
validateStoreAccessAnyStore(user, storeId) ==
    IF user = NoUser \/ storeId = ""
        THEN Resp(401, "Authentication and store context required")
    ELSE IF user.role = "administrator" THEN NoResp
    ELSE IF user.userId \notin DOMAIN users THEN Resp(401, "User not found")
    ELSE NoResp

validateStoreAccess(user, storeId) ==
    IF user = NoUser \/ storeId = ""
        THEN Resp(401, "Authentication and store context required")
    ELSE IF user.role = "administrator" THEN NoResp
    ELSE IF user.userId \notin DOMAIN users THEN Resp(401, "User not found")
    ELSE IF users[user.userId].storeId # storeId THEN Resp(403, AccessDenied)
    ELSE NoResp

\* (a requireRole that lets every session through)
requireRoleAnyRole(roles, user) ==
    IF user = NoUser THEN Resp(403, "Insufficient permissions") ELSE NoResp

\* (a requireRole that reads the role the user has in storage now)
requireRoleOfStorage(roles, user) ==
    IF user = NoUser \/ user.userId \notin DOMAIN users
           \/ ~users[user.userId].isActive
           \/ users[user.userId].role \notin roles
        THEN Resp(403, "Insufficient permissions")
        ELSE NoResp

requireRole(roles, user) ==
    IF user = NoUser \/ user.role \notin roles
        THEN Resp(403, "Insufficient permissions")
        ELSE NoResp

Check(mw, token, storeId) ==
    CASE mw.name = "requireAuth" -> requireAuth(token)
      [] mw.name = "requireStore" -> requireStore(storeId)
      [] mw.name = "validateStoreAccess" -> validateStoreAccess(SessionOf(token), storeId)
      [] mw.name = "requireRole" -> requireRole(mw.roles, SessionOf(token))

Mw(name) == [name |-> name, roles |-> {}]

MwRole(roles) == [name |-> "requireRole", roles |-> roles]

\* the response of the first middleware of the chain that does not call next(),
\* or NoResp when the handler is reached
RunMiddleware(chain, token, storeId) ==
    LET failing == {k \in 1..Len(chain) : Check(chain[k], token, storeId) # NoResp}
    IN  IF failing = {} THEN NoResp
        ELSE Check(chain[CHOOSE k \in failing : \A l \in failing : k <= l], token, storeId)

\* app.post("/api/sales", requireAuth, requireStore, validateStoreAccess, ...)
SalesChain == <<Mw("requireAuth"), Mw("requireStore"), Mw("validateStoreAccess")>>

(***************************************************************************)
(* Requests.  pc is the place the handler is suspended at.                 *)
(***************************************************************************)
\* storeId and userId are fields a client may send; the handler reads items,
\* paymentMethod and customerId
NoBody ==
    [items |-> <<>>, paymentMethod |-> "", customerId |-> "", total |-> 0, tax |-> 0,
     storeId |-> "", userId |-> ""]

\* the fields a request body gives for a product, a customer or a user: fields is the
\* set of the keys the body has
NoData ==
    [fields |-> {}, storeId |-> "", name |-> "", sellingPrice |-> 0, stock |-> 0,
     isActive |-> TRUE, role |-> ""]

\* the value of user before getUserByUsername has answered
NoDbUser ==
    [id |-> "", username |-> "", password |-> "", role |-> "", isActive |-> FALSE]

\* the value of existingCustomer before getCustomer has answered
NoCustomer == [storeId |-> "", name |-> ""]

Idle ==
    [pc |-> "idle", kind |-> "", token |-> "", storeId |-> "", user |-> NoUser,
     body |-> NoBody, id |-> "", data |-> NoData, quantity |-> 0,
     found |-> FALSE, existing |-> NoCustomer, userStore |-> "", saleId |-> 0,
     username |-> "", password |-> "", dbUser |-> NoDbUser, jsonToken |-> "",
     jsonProducts |-> <<>>, jsonItems |-> <<>>, jsonMovements |-> <<>>,
     i |-> 0, validatedItems |-> <<>>, subtotal |-> 0,
     originalProducts |-> <<>>, resp |-> NoResp]

Respond(r, status, message) ==
    reqs' = [reqs EXCEPT ![r].pc = "done",
                         ![r].resp = [status |-> status, message |-> message]]

\* the cart lines submitted so far, over all requests
RECURSIVE LinesOf(_)
LinesOf(R) ==
    IF R = {} THEN 0
    ELSE LET r == CHOOSE x \in R : TRUE
         IN  Len(reqs[r].body.items) + LinesOf(R \ {r})

\* request r arrives: requests are numbered in the order of their arrival
Arrives(r) ==
    /\ reqs[r].pc = "idle"
    /\ \A q \in ReqIds : q < r => reqs[q].pc # "idle"

(***************************************************************************)
(* POST /api/sales                                                         *)
(***************************************************************************)
PaymentMethods == {"cash", "card", "digital"}

\* Arrival, the middleware chain and the checks of the request's shape.
\* bodies[n] is the set of request bodies of at most n cart lines.
SalesPost(r, tokens, storeIds, bodies) ==
    /\ Arrives(r)
    /\ \E token \in tokens, storeId \in storeIds, body \in bodies[MaxLines - LinesOf(ReqIds)] :
          /\ LET gate == RunMiddleware(SalesChain, token, storeId)
                 req == [Idle EXCEPT !.kind = "POST /api/sales", !.token = token,
                                      !.storeId = storeId, !.user = SessionOf(token),
                                      !.body = body, !.i = 1]
                 answer(status, message) ==
                     [req EXCEPT !.pc = "done",
                                 !.resp = [status |-> status, message |-> message]]
             IN  reqs' = [reqs EXCEPT ![r] =
                     IF gate # NoResp THEN answer(gate.status, gate.message)
                     ELSE IF Len(body.items) = 0 THEN answer(400, "Items are required")
                     ELSE IF body.paymentMethod \notin PaymentMethods
                          THEN answer(400, "Valid payment method is required")
                     ELSE [req EXCEPT !.pc = "line"]]
    /\ UNCHANGED <<store, aside>>

\* const unitPrice = parseFloat(product.sellingPrice): the server's price;
\* the unitPrice the client sent with the line is not read
UnitPriceOfClient(item, product) == item.unitPrice

UnitPriceOf(item, product) == product.sellingPrice

\* (a turn of the loop that compares the stock before the product's store)
SalesLineStockFirst(r) ==
    /\ reqs[r].pc = "line"
    /\ LET item == reqs[r].body.items[reqs[r].i]
           product == products[item.productId]
           unitPrice == UnitPriceOf(item, product)
           lineTotal == unitPrice * item.quantity
       IN  IF item.productId = "" \/ item.quantity <= 0
               THEN Respond(r, 400, "Invalid item data")
           ELSE IF item.productId \notin DOMAIN products
               THEN Respond(r, 400, "Product not found")
           ELSE IF product.stock < item.quantity
               THEN Respond(r, 400, "Insufficient stock")
           ELSE IF product.storeId # reqs[r].storeId
               THEN Respond(r, 403, "Product does not belong to this store")
           ELSE IF ~product.isActive
               THEN Respond(r, 400, "Product is not active")
           ELSE reqs' = [reqs EXCEPT
                    ![r].validatedItems = Append(@,
                        [productId |-> item.productId, quantity |-> item.quantity,
                         unitPrice |-> unitPrice, total |-> toFixed2(lineTotal)]),
                    ![r].subtotal = @ + lineTotal,
                    ![r].i = IF @ = Len(reqs[r].body.items) THEN 1 ELSE @ + 1,
                    ![r].pc = IF reqs[r].i = Len(reqs[r].body.items) THEN "psa" ELSE "line"]
    /\ UNCHANGED <<store, aside>>

\* One turn of the loop over the cart: the line is checked against the
\* product read from the store and priced from it.
SalesLine(r) ==
    /\ reqs[r].pc = "line"
    /\ LET item == reqs[r].body.items[reqs[r].i]
           product == products[item.productId]
           unitPrice == UnitPriceOf(item, product)
           lineTotal == unitPrice * item.quantity
       IN  IF item.productId = "" \/ item.quantity <= 0
               THEN Respond(r, 400, "Invalid item data")
           ELSE IF item.productId \notin DOMAIN products
               THEN Respond(r, 400, "Product not found")
           ELSE IF product.storeId # reqs[r].storeId
               THEN Respond(r, 403, "Product does not belong to this store")
           ELSE IF ~product.isActive
               THEN Respond(r, 400, "Product is not active")
           ELSE IF product.stock < item.quantity
               THEN Respond(r, 400, "Insufficient stock")
           ELSE reqs' = [reqs EXCEPT
                    ![r].validatedItems = Append(@,
                        [productId |-> item.productId, quantity |-> item.quantity,
                         unitPrice |-> unitPrice, total |-> toFixed2(lineTotal)]),
                    ![r].subtotal = @ + lineTotal,
                    ![r].i = IF @ = Len(reqs[r].body.items) THEN 1 ELSE @ + 1,
                    ![r].pc = IF reqs[r].i = Len(reqs[r].body.items) THEN "psa" ELSE "line"]
    /\ UNCHANGED <<store, aside>>

(***************************************************************************)
(* MemStorage.processSaleAtomic                                            *)
(***************************************************************************)
\* (every sale is given the same id)
SaleIdShared(r) == 1

\* the id randomUUID() gives the sale of request r: fresh for every sale
SaleIdOf(r) == r

\* saleData of the route, from the server's own figures
SaleData(r) ==
    [id |-> SaleIdOf(r),
     customerId |-> IF reqs[r].body.customerId = "walk-in" THEN "" ELSE reqs[r].body.customerId,
     userId |-> reqs[r].user.userId,
     storeId |-> reqs[r].storeId,
     total |-> TotalToFixed2(reqs[r].subtotal),
     tax |-> TaxToFixed2(reqs[r].subtotal),
     discount |-> 0,
     paymentMethod |-> reqs[r].body.paymentMethod,
     status |-> "completed"]

\* Step 1: the error of the first line that fails, "" when none does
StockValidation(items) ==
    LET fails(k) == \/ items[k].productId \notin DOMAIN products
                    \/ products[items[k].productId].stock < items[k].quantity
        failing == {k \in 1..Len(items) : fails(k)}
        first == CHOOSE k \in failing : \A l \in failing : k <= l
    IN  IF failing = {} THEN ""
        ELSE IF items[first].productId \notin DOMAIN products THEN "Product not found"
        ELSE "Insufficient stock"

\* (the sale header written before Step 1 has validated the lines)
ProcessSaleAtomicSaleFirst(r) ==
    /\ reqs[r].pc = "psa"
    /\ sales' = createSale(SaleIdOf(r), SaleData(r))
    /\ LET error == StockValidation(reqs[r].validatedItems)
       IN  IF error # ""
           THEN Respond(r, 400, error)
           ELSE reqs' = [reqs EXCEPT ![r].originalProducts = products, ![r].pc = "item"]
    /\ UNCHANGED <<users, sessions, customers, products, saleItems, inventoryMovements, aside>>

\* Steps 1 to 3, which run without an await between them: validation, the
\* backup of the product map, createSale.
ProcessSaleAtomic(r) ==
    /\ reqs[r].pc = "psa"
    /\ LET error == StockValidation(reqs[r].validatedItems)
       IN  IF error # ""
           THEN /\ Respond(r, 400, error)
                /\ UNCHANGED <<store, aside>>
           ELSE /\ sales' = createSale(SaleIdOf(r), SaleData(r))
                /\ reqs' = [reqs EXCEPT ![r].originalProducts = products,
                                        ![r].pc = "item"]
                /\ UNCHANGED <<users, sessions, customers, products, saleItems,
                               inventoryMovements, aside>>

\* Step 4, first await of a line: createSaleItem
CommitSaleItem(r) ==
    /\ reqs[r].pc = "item"
    /\ LET item == reqs[r].validatedItems[reqs[r].i]
       IN  saleItems' = createSaleItem(
               [saleId |-> SaleIdOf(r), productId |-> item.productId,
                quantity |-> item.quantity, unitPrice |-> item.unitPrice,
                total |-> item.total])
    /\ reqs' = [reqs EXCEPT ![r].pc = "stock"]
    /\ UNCHANGED <<users, sessions, customers, products, sales, inventoryMovements, aside>>

\* Step 4, second await of a line: updateProductStock(productId, -quantity)
CommitStock(r) ==
    /\ reqs[r].pc = "stock"
    /\ LET item == reqs[r].validatedItems[reqs[r].i]
       IN  products' = updateProductStock(item.productId, 0 - item.quantity)
    /\ reqs' = [reqs EXCEPT ![r].pc = "move"]
    /\ UNCHANGED <<users, sessions, customers, sales, saleItems, inventoryMovements, aside>>

\* Step 4, third await of a line: createInventoryMovement; after the last
\* line the result is returned and the route answers 201.
CommitMovement(r) ==
    /\ reqs[r].pc = "move"
    /\ LET item == reqs[r].validatedItems[reqs[r].i]
           last == reqs[r].i = Len(reqs[r].validatedItems)
       IN  /\ inventoryMovements' = createInventoryMovement(
                   [productId |-> item.productId, type |-> "out",
                    quantity |-> item.quantity, reason |-> SaleIdOf(r),
                    userId |-> reqs[r].user.userId])
           /\ reqs' = [reqs EXCEPT
                    ![r].i = IF last THEN @ ELSE @ + 1,
                    ![r].pc = IF last THEN "done" ELSE "item",
                    ![r].resp = IF last THEN [status |-> 201, message |-> "created"] ELSE @]
    /\ UNCHANGED <<users, sessions, customers, products, sales, saleItems, aside>>

\* (the catch block answers with the error and restores nothing)
CommitThrowsNoRestore(r) ==
    /\ reqs[r].pc \in {"item", "stock", "move"}
    /\ Respond(r, 400, "Unknown error during sales processing")
    /\ UNCHANGED <<store, aside>>

\* (the exception leaves processSaleAtomic and the request is never answered)
CommitThrowsUncaught(r) ==
    /\ reqs[r].pc \in {"item", "stock", "move"}
    /\ reqs' = [reqs EXCEPT ![r].pc = "thrown"]
    /\ UNCHANGED <<store, aside>>

\* Step 5: a step of the commit phase throws; the catch block puts the
\* backup of the product map back and returns the error, which the route
\* answers with 400.
CommitThrows(r) ==
    /\ reqs[r].pc \in {"item", "stock", "move"}
    /\ products' = reqs[r].originalProducts
    /\ Respond(r, 400, "Unknown error during sales processing")
    /\ UNCHANGED <<users, sessions, customers, sales, saleItems, inventoryMovements, aside>>

(***************************************************************************)
(* Products and customers: storage methods.                                *)
(***************************************************************************)
\* the id randomUUID() gives the record request r creates: fresh for every record
NewId(r) == "n" \o ToString(r)

\* { ...product, ...productData }
MergeProduct(product, data) ==
    [storeId |-> IF "storeId" \in data.fields THEN data.storeId ELSE product.storeId,
     isActive |-> IF "isActive" \in data.fields THEN data.isActive ELSE product.isActive,
     sellingPrice |->
        IF "sellingPrice" \in data.fields THEN data.sellingPrice ELSE product.sellingPrice,
     stock |-> IF "stock" \in data.fields THEN data.stock ELSE product.stock,
     minStockLevel |-> product.minStockLevel]

\* { ...insertProduct, id, stock: insertProduct.stock ?? "0.000",
\*   minStockLevel: insertProduct.minStockLevel ?? "5.000",
\*   isActive: insertProduct.isActive ?? true }; no body here has a minStockLevel
createProduct(id, insertProduct) ==
    MapSet(products, id,
           [storeId |-> insertProduct.storeId,
            isActive |-> IF "isActive" \in insertProduct.fields
                         THEN insertProduct.isActive ELSE TRUE,
            sellingPrice |-> insertProduct.sellingPrice,
            stock |-> IF "stock" \in insertProduct.fields THEN insertProduct.stock ELSE 0,
            minStockLevel |-> 5000])

\* an absent product leaves the map as it is (the method returns undefined)
updateProduct(id, productData) ==
    IF id \notin DOMAIN products THEN products
    ELSE MapSet(products, id, MergeProduct(products[id], productData))

deleteProduct(id) == MapDelete(products, id)

\* { ...customer, ...customerData }
MergeCustomer(customer, data) ==
    [storeId |-> IF "storeId" \in data.fields THEN data.storeId ELSE customer.storeId,
     name |-> IF "name" \in data.fields THEN data.name ELSE customer.name]

createCustomer(id, insertCustomer) ==
    MapSet(customers, id, [storeId |-> insertCustomer.storeId, name |-> insertCustomer.name])

updateCustomer(id, customerData) ==
    IF id \notin DOMAIN customers THEN customers
    ELSE MapSet(customers, id, MergeCustomer(customers[id], customerData))

deleteCustomer(id) == MapDelete(customers, id)

(***************************************************************************)
(* POST /api/auth/login                                                    *)
(***************************************************************************)
\* Array.from(this.users.values()).find(user => user.username === username):
\* the id of the user found, "" when there is none
getUserByUsername(username) ==
    IF \E u \in DOMAIN users : users[u].username = username
    THEN CHOOSE u \in DOMAIN users : users[u].username = username
    ELSE ""

\* Math.random().toString(36).substring(2) of the login of request r: taken
\* to differ from every token given before
NewToken(r) == "t" \o ToString(r)

\* the body is taken to pass loginSchema; the user is read before the await
Login(r, usernames, passwords) ==
    /\ Arrives(r)
    /\ \E username \in usernames, password \in passwords :
          LET id == getUserByUsername(username)
          IN  reqs' = [reqs EXCEPT ![r] =
                  [Idle EXCEPT !.pc = "login", !.kind = "POST /api/auth/login",
                               !.username = username, !.password = password,
                               !.found = id # "",
                               !.dbUser =
                                   IF id = "" THEN NoDbUser
                                   ELSE [id |-> id, username |-> users[id].username,
                                         password |-> users[id].password,
                                         role |-> users[id].role,
                                         isActive |-> users[id].isActive]]]
    /\ UNCHANGED <<store, aside>>

\* (a login that does not look at isActive)
LoginSessionDisabledToo(r) ==
    /\ reqs[r].pc = "login"
    /\ LET user == reqs[r].dbUser
           ok == reqs[r].found /\ user.password = reqs[r].password
       IN  /\ sessions' =
                 IF ok
                 THEN MapSet(sessions, NewToken(r),
                             [userId |-> user.id, username |-> user.username,
                              role |-> user.role])
                 ELSE sessions
           /\ reqs' = [reqs EXCEPT
                 ![r].pc = "done",
                 ![r].jsonToken = IF ok THEN NewToken(r) ELSE "",
                 ![r].resp = IF ok THEN Resp(200, "ok") ELSE Resp(401, "Invalid credentials")]
    /\ UNCHANGED <<users, customers, products, sales, saleItems, inventoryMovements, aside>>

\* the checks of the credentials and of isActive, then sessions.set
LoginSession(r) ==
    /\ reqs[r].pc = "login"
    /\ LET user == reqs[r].dbUser
           known == reqs[r].found /\ user.password = reqs[r].password
           ok == known /\ user.isActive
       IN  /\ sessions' =
                 IF ok
                 THEN MapSet(sessions, NewToken(r),
                             [userId |-> user.id, username |-> user.username,
                              role |-> user.role])
                 ELSE sessions
           /\ reqs' = [reqs EXCEPT
                 ![r].pc = "done",
                 ![r].jsonToken = IF ok THEN NewToken(r) ELSE "",
                 ![r].resp =
                     IF ~known THEN Resp(401, "Invalid credentials")
                     ELSE IF ~user.isActive THEN Resp(401, "Account is disabled")
                     ELSE Resp(200, "ok")]
    /\ UNCHANGED <<users, customers, products, sales, saleItems, inventoryMovements, aside>>

(***************************************************************************)
(* Product routes: requireAuth and requireRole, no store in the request.   *)
(***************************************************************************)
ManageRoles == {"administrator", "owner", "administrasi"}

ManageChain == <<Mw("requireAuth"), MwRole(ManageRoles)>>

\* the request as the handler holds it when it answers in its first step
Request(kind, token, storeId, id, data) ==
    [Idle EXCEPT !.pc = "done", !.kind = kind, !.token = token, !.storeId = storeId,
                 !.user = SessionOf(token), !.id = id, !.data = data]

\* POST /api/products: the body is taken to pass insertProductSchema
ProductsPost(r, tokens, datas) ==
    /\ Arrives(r)
    /\ \E token \in tokens, data \in datas :
          LET gate == RunMiddleware(ManageChain, token, "")
              req == Request("POST /api/products", token, "", NewId(r), data)
          IN  /\ products' = IF gate # NoResp THEN products ELSE createProduct(NewId(r), data)
              /\ reqs' = [reqs EXCEPT ![r] =
                     [req EXCEPT !.resp = IF gate # NoResp THEN gate ELSE Resp(201, "created")]]
    /\ UNCHANGED <<users, sessions, customers, sales, saleItems, inventoryMovements, aside>>

\* PUT /api/products/:id
ProductsPut(r, tokens, ids, datas) ==
    /\ Arrives(r)
    /\ \E token \in tokens, id \in ids, data \in datas :
          LET gate == RunMiddleware(ManageChain, token, "")
              req == Request("PUT /api/products/:id", token, "", id, data)
          IN  /\ products' = IF gate # NoResp THEN products ELSE updateProduct(id, data)
              /\ reqs' = [reqs EXCEPT ![r] =
                     [req EXCEPT !.resp =
                         IF gate # NoResp THEN gate
                         ELSE IF id \notin DOMAIN products THEN Resp(404, "Product not found")
                         ELSE Resp(200, "ok")]]
    /\ UNCHANGED <<users, sessions, customers, sales, saleItems, inventoryMovements, aside>>

\* DELETE /api/products/:id
ProductsDelete(r, tokens, ids) ==
    /\ Arrives(r)
    /\ \E token \in tokens, id \in ids :
          LET gate == RunMiddleware(ManageChain, token, "")
              req == Request("DELETE /api/products/:id", token, "", id, NoData)
          IN  /\ products' = IF gate # NoResp THEN products ELSE deleteProduct(id)
              /\ reqs' = [reqs EXCEPT ![r] =
                     [req EXCEPT !.resp =
                         IF gate # NoResp THEN gate
                         ELSE IF id \notin DOMAIN products THEN Resp(404, "Product not found")
                         ELSE Resp(200, "Product deleted successfully")]]
    /\ UNCHANGED <<users, sessions, customers, sales, saleItems, inventoryMovements, aside>>

(***************************************************************************)
(* POST /api/auth/logout                                                   *)
(***************************************************************************)
\* (a logout that answers and leaves the session in the session set)
LogoutKeepsSession(r, tokens) ==
    /\ Arrives(r)
    /\ \E token \in tokens :
          LET gate == requireAuth(token)
              req == Request("POST /api/auth/logout", token, "", "", NoData)
          IN  reqs' = [reqs EXCEPT ![r] =
                  [req EXCEPT !.resp =
                      IF gate # NoResp THEN gate ELSE Resp(200, "Logged out successfully")]]
    /\ UNCHANGED <<store, aside>>

\* (a logout that removes every session of the user of the token)
LogoutEverySession(r, tokens) ==
    /\ Arrives(r)
    /\ \E token \in tokens :
          LET gate == requireAuth(token)
              req == Request("POST /api/auth/logout", token, "", "", NoData)
              kept == {t \in DOMAIN sessions : sessions[t].userId # SessionOf(token).userId}
          IN  /\ sessions' = IF gate # NoResp THEN sessions ELSE [t \in kept |-> sessions[t]]
              /\ reqs' = [reqs EXCEPT ![r] =
                     [req EXCEPT !.resp =
                         IF gate # NoResp THEN gate
                         ELSE Resp(200, "Logged out successfully")]]
    /\ UNCHANGED <<users, customers, products, sales, saleItems, inventoryMovements, aside>>

\* requireAuth, then sessions.delete(sessionId): the handler has no await
Logout(r, tokens) ==
    /\ Arrives(r)
    /\ \E token \in tokens :
          LET gate == requireAuth(token)
              req == Request("POST /api/auth/logout", token, "", "", NoData)
          IN  /\ sessions' = IF gate # NoResp THEN sessions ELSE MapDelete(sessions, token)
              /\ reqs' = [reqs EXCEPT ![r] =
                     [req EXCEPT !.resp =
                         IF gate # NoResp THEN gate
                         ELSE Resp(200, "Logged out successfully")]]
    /\ UNCHANGED <<users, customers, products, sales, saleItems, inventoryMovements, aside>>

(***************************************************************************)
(* User routes: requireAuth and requireRole(["administrator"]).            *)
(***************************************************************************)
UsersChain == <<Mw("requireAuth"), MwRole({"administrator"})>>

\* { ...user, ...userData }
MergeUser(user, data) ==
    [user EXCEPT
        !.role = IF "role" \in data.fields THEN data.role ELSE @,
        !.storeId = IF "storeId" \in data.fields THEN data.storeId ELSE @,
        !.isActive = IF "isActive" \in data.fields THEN data.isActive ELSE @]

updateUser(id, userData) ==
    IF id \notin DOMAIN users THEN users
    ELSE [users EXCEPT ![id] = MergeUser(@, userData)]

deleteUser(id) == MapDelete(users, id)

\* PUT /api/users/:id: the body is taken to pass insertUserSchema.partial()
UsersPut(r, tokens, ids, datas) ==
    /\ Arrives(r)
    /\ \E token \in tokens, id \in ids, data \in datas :
          LET gate == RunMiddleware(UsersChain, token, "")
              req == Request("PUT /api/users/:id", token, "", id, data)
          IN  /\ users' = IF gate # NoResp THEN users ELSE updateUser(id, data)
              /\ reqs' = [reqs EXCEPT ![r] =
                     [req EXCEPT !.resp =
                         IF gate # NoResp THEN gate
                         ELSE IF id \notin DOMAIN users THEN Resp(404, "User not found")
                         ELSE Resp(200, "ok")]]
    /\ UNCHANGED <<sessions, customers, products, sales, saleItems, inventoryMovements, aside>>

\* DELETE /api/users/:id
UsersDelete(r, tokens, ids) ==
    /\ Arrives(r)
    /\ \E token \in tokens, id \in ids :
          LET gate == RunMiddleware(UsersChain, token, "")
              req == Request("DELETE /api/users/:id", token, "", id, NoData)
          IN  /\ users' = IF gate # NoResp THEN users ELSE deleteUser(id)
              /\ reqs' = [reqs EXCEPT ![r] =
                     [req EXCEPT !.resp =
                         IF gate # NoResp THEN gate
                         ELSE IF id \notin DOMAIN users THEN Resp(404, "User not found")
                         ELSE Resp(200, "User deleted successfully")]]
    /\ UNCHANGED <<sessions, customers, products, sales, saleItems, inventoryMovements, aside>>

(***************************************************************************)
(* Customer routes.                                                        *)
(***************************************************************************)
\* app.post("/api/customers", requireAuth, requireStore, validateStoreAccess, ...)
CustomersChain == <<Mw("requireAuth"), Mw("requireStore"), Mw("validateStoreAccess")>>

\* POST /api/customers: the middleware chain
CustomersPost(r, tokens, storeIds, datas) ==
    /\ Arrives(r)
    /\ \E token \in tokens, storeId \in storeIds, data \in datas :
          LET gate == RunMiddleware(CustomersChain, token, storeId)
              req == Request("POST /api/customers", token, storeId, "", data)
          IN  reqs' = [reqs EXCEPT ![r] =
                  IF gate # NoResp THEN [req EXCEPT !.resp = gate]
                  ELSE [req EXCEPT !.pc = "createCustomer"]]
    /\ UNCHANGED <<store, aside>>

\* POST /api/customers: the handler; the record's store is req.storeId
CustomersCreate(r) ==
    /\ reqs[r].pc = "createCustomer"
    /\ customers' = createCustomer(NewId(r), [reqs[r].data EXCEPT !.storeId = reqs[r].storeId])
    /\ reqs' = [reqs EXCEPT ![r].pc = "done", ![r].id = NewId(r),
                            ![r].resp = Resp(201, "created")]
    /\ UNCHANGED <<users, sessions, products, sales, saleItems, inventoryMovements, aside>>

\* PUT /api/customers/:id: the middleware chain
CustomersPut(r, tokens, storeIds, ids, datas) ==
    /\ Arrives(r)
    /\ \E token \in tokens, storeId \in storeIds, id \in ids, data \in datas :
          LET gate == RunMiddleware(CustomersChain, token, storeId)
              req == Request("PUT /api/customers/:id", token, storeId, id, data)
          IN  reqs' = [reqs EXCEPT ![r] =
                  IF gate # NoResp THEN [req EXCEPT !.resp = gate]
                  ELSE [req EXCEPT !.pc = "getCustomer"]]
    /\ UNCHANGED <<store, aside>>

\* const existingCustomer = await storage.getCustomer(id)
CustomersPutGet(r) ==
    /\ reqs[r].pc = "getCustomer"
    /\ LET id == reqs[r].id
       IN  reqs' = [reqs EXCEPT
                ![r].pc = "checkCustomer",
                ![r].found = id \in DOMAIN customers,
                ![r].existing = IF id \in DOMAIN customers THEN customers[id] ELSE NoCustomer]
    /\ UNCHANGED <<store, aside>>

\* the check of the record's store, then storage.updateCustomer
CustomersPutUpdate(r) ==
    /\ reqs[r].pc = "checkCustomer"
    /\ LET id == reqs[r].id
           allowed == reqs[r].found /\ reqs[r].existing.storeId = reqs[r].storeId
       IN  /\ customers' = IF allowed THEN updateCustomer(id, reqs[r].data) ELSE customers
           /\ Respond(r,
                  IF ~reqs[r].found THEN 404
                  ELSE IF reqs[r].existing.storeId # reqs[r].storeId THEN 403
                  ELSE IF id \notin DOMAIN customers THEN 404
                  ELSE 200,
                  IF ~reqs[r].found THEN "Customer not found"
                  ELSE IF reqs[r].existing.storeId # reqs[r].storeId
                      THEN "Access denied: Customer does not belong to this store"
                  ELSE IF id \notin DOMAIN customers THEN "Customer not found"
                  ELSE "ok")
    /\ UNCHANGED <<users, sessions, products, sales, saleItems, inventoryMovements, aside>>

\* DELETE /api/customers/:id: requireAuth and requireRole
CustomersDelete(r, tokens, ids) ==
    /\ Arrives(r)
    /\ \E token \in tokens, id \in ids :
          LET gate == RunMiddleware(ManageChain, token, "")
              req == Request("DELETE /api/customers/:id", token, "", id, NoData)
          IN  /\ customers' = IF gate # NoResp THEN customers ELSE deleteCustomer(id)
              /\ reqs' = [reqs EXCEPT ![r] =
                     [req EXCEPT !.resp =
                         IF gate # NoResp THEN gate
                         ELSE IF id \notin DOMAIN customers THEN Resp(404, "Customer not found")
                         ELSE Resp(200, "Customer deleted successfully")]]
    /\ UNCHANGED <<users, sessions, products, sales, saleItems, inventoryMovements, aside>>

(***************************************************************************)
(* Suppliers, categories and cash-flow entries: the routes that create.    *)
(* The bodies are taken to pass the insert schemas.                        *)
(***************************************************************************)
createSupplier(id, insertSupplier) ==
    MapSet(suppliers, id, [storeId |-> insertSupplier.storeId, name |-> insertSupplier.name])

createCategory(id, insertCategory) ==
    MapSet(categories, id, [storeId |-> insertCategory.storeId, name |-> insertCategory.name])

\* this.cashFlowEntries.push(entry)
createCashFlowEntry(id, insertEntry) ==
    Append(cashFlowEntries,
           [id |-> id, storeId |-> insertEntry.storeId, userId |-> insertEntry.userId,
            description |-> insertEntry.name])

\* app.post("/api/suppliers", requireAuth, requireStore, validateStoreAccess,
\*          requireRole([...]), ...); POST /api/categories has the same chain
SuppliersChain ==
    <<Mw("requireAuth"), Mw("requireStore"), Mw("validateStoreAccess"), MwRole(ManageRoles)>>

\* the middleware chain of a route that creates a record of a store
CreatePost(r, kind, chain, pc, tokens, storeIds, datas) ==
    /\ Arrives(r)
    /\ \E token \in tokens, storeId \in storeIds, data \in datas :
          LET gate == RunMiddleware(chain, token, storeId)
              req == Request(kind, token, storeId, "", data)
          IN  reqs' = [reqs EXCEPT ![r] =
                  IF gate # NoResp THEN [req EXCEPT !.resp = gate]
                  ELSE [req EXCEPT !.pc = pc]]
    /\ UNCHANGED <<store, aside>>

SuppliersPost(r, tokens, storeIds, datas) ==
    CreatePost(r, "POST /api/suppliers", SuppliersChain, "createSupplier",
               tokens, storeIds, datas)

CategoriesPost(r, tokens, storeIds, datas) ==
    CreatePost(r, "POST /api/categories", SuppliersChain, "createCategory",
               tokens, storeIds, datas)

CashFlowEntriesPost(r, tokens, storeIds, datas) ==
    CreatePost(r, "POST /api/cashflow/entries", CustomersChain, "createCashFlowEntry",
               tokens, storeIds, datas)

\* (a handler that lets the storeId of the body stand)
SuppliersCreateBodyStore(r) ==
    /\ reqs[r].pc = "createSupplier"
    /\ suppliers' = createSupplier(NewId(r),
           IF "storeId" \in reqs[r].data.fields THEN reqs[r].data
           ELSE [reqs[r].data EXCEPT !.storeId = reqs[r].storeId])
    /\ reqs' = [reqs EXCEPT ![r].pc = "done", ![r].id = NewId(r),
                            ![r].resp = Resp(201, "created")]
    /\ UNCHANGED <<store, categories, cashFlowEntries, client>>

\* insertSupplierSchema.parse({ ...req.body, storeId: req.storeId }), createSupplier
SuppliersCreate(r) ==
    /\ reqs[r].pc = "createSupplier"
    /\ suppliers' = createSupplier(NewId(r),
                                   [reqs[r].data EXCEPT !.storeId = reqs[r].storeId])
    /\ reqs' = [reqs EXCEPT ![r].pc = "done", ![r].id = NewId(r),
                            ![r].resp = Resp(201, "created")]
    /\ UNCHANGED <<store, categories, cashFlowEntries, client>>

\* insertCategorySchema.parse({ ...req.body, storeId: req.storeId }), createCategory
CategoriesCreate(r) ==
    /\ reqs[r].pc = "createCategory"
    /\ categories' = createCategory(NewId(r),
                                    [reqs[r].data EXCEPT !.storeId = reqs[r].storeId])
    /\ reqs' = [reqs EXCEPT ![r].pc = "done", ![r].id = NewId(r),
                            ![r].resp = Resp(201, "created")]
    /\ UNCHANGED <<store, suppliers, cashFlowEntries, client>>

\* insertCashFlowEntrySchema.parse({ ...req.body, userId: req.user.userId,
\* storeId: req.storeId }), createCashFlowEntry
CashFlowEntriesCreate(r) ==
    /\ reqs[r].pc = "createCashFlowEntry"
    /\ cashFlowEntries' = createCashFlowEntry(NewId(r),
           [storeId |-> reqs[r].storeId, userId |-> reqs[r].user.userId,
            name |-> reqs[r].data.name])
    /\ reqs' = [reqs EXCEPT ![r].pc = "done", ![r].id = NewId(r),
                            ![r].resp = Resp(201, "created")]
    /\ UNCHANGED <<store, suppliers, categories, client>>

(***************************************************************************)
(* POST /api/inventory/adjustment                                          *)
(***************************************************************************)
\* requireAuth, requireRole and the read of the session's user
InventoryAdjustment(r, tokens, ids, quantities) ==
    /\ Arrives(r)
    /\ \E token \in tokens, id \in ids, quantity \in quantities :
          LET gate == RunMiddleware(ManageChain, token, "")
              userId == SessionOf(token).userId
              req == [Request("POST /api/inventory/adjustment", token, "", id, NoData)
                          EXCEPT !.quantity = quantity]
          IN  reqs' = [reqs EXCEPT ![r] =
                  IF gate # NoResp THEN [req EXCEPT !.resp = gate]
                  ELSE IF userId \notin DOMAIN users
                      THEN [req EXCEPT !.resp = Resp(401, "User not found")]
                  ELSE [req EXCEPT !.pc = "adjustStock",
                                   !.userStore = users[userId].storeId]]
    /\ UNCHANGED <<store, aside>>

\* await storage.updateProductStock(productId, quantity): its result is not read
AdjustStock(r) ==
    /\ reqs[r].pc = "adjustStock"
    /\ products' = updateProductStock(reqs[r].id, reqs[r].quantity)
    /\ reqs' = [reqs EXCEPT ![r].pc = "adjustMove"]
    /\ UNCHANGED <<users, sessions, customers, sales, saleItems, inventoryMovements, aside>>

\* await storage.createInventoryMovement({...}), then 201
AdjustMovement(r) ==
    /\ reqs[r].pc = "adjustMove"
    /\ inventoryMovements' = createInventoryMovement(
           [productId |-> reqs[r].id, type |-> "adjustment", quantity |-> reqs[r].quantity,
            reason |-> 0, userId |-> reqs[r].user.userId, storeId |-> reqs[r].userStore])
    /\ Respond(r, 201, "created")
    /\ UNCHANGED <<users, sessions, customers, products, sales, saleItems, aside>>

(***************************************************************************)
(* Read routes.  jsonProducts, jsonItems and jsonMovements are the body of *)
(* the answer given with res.json.                                         *)
(***************************************************************************)
\* Array.from(this.products.values()): the second MemStorage takes no storeId
getAllProducts == products

\* (a filter that does not count a stock equal to the level as low)
getLowStockProductsStrict ==
    {p \in DOMAIN products : products[p].stock < products[p].minStockLevel}

\* the ids of the products that getLowStockProducts answers:
\* parseFloat(product.stock) <= parseFloat(product.minStockLevel)
getLowStockProducts ==
    {p \in DOMAIN products : products[p].stock <= products[p].minStockLevel}

\* GET /api/products: the middleware chain
ProductsList(r, tokens, storeIds) ==
    /\ Arrives(r)
    /\ \E token \in tokens, storeId \in storeIds :
          LET gate == RunMiddleware(CustomersChain, token, storeId)
              req == Request("GET /api/products", token, storeId, "", NoData)
          IN  reqs' = [reqs EXCEPT ![r] =
                  IF gate # NoResp THEN [req EXCEPT !.resp = gate]
                  ELSE [req EXCEPT !.pc = "getAllProducts"]]
    /\ UNCHANGED <<store, aside>>

\* GET /api/products/:id: the middleware chain
ProductsGet(r, tokens, storeIds, ids) ==
    /\ Arrives(r)
    /\ \E token \in tokens, storeId \in storeIds, id \in ids :
          LET gate == RunMiddleware(CustomersChain, token, storeId)
              req == Request("GET /api/products/:id", token, storeId, id, NoData)
          IN  reqs' = [reqs EXCEPT ![r] =
                  IF gate # NoResp THEN [req EXCEPT !.resp = gate]
                  ELSE [req EXCEPT !.pc = "getProduct"]]
    /\ UNCHANGED <<store, aside>>

\* GET /api/products: res.json(await storage.getAllProducts(req.storeId))
ProductsGetAll(r) ==
    /\ reqs[r].pc = "getAllProducts"
    /\ reqs' = [reqs EXCEPT ![r].pc = "done", ![r].resp = Resp(200, "ok"),
                            ![r].jsonProducts = getAllProducts]
    /\ UNCHANGED <<store, aside>>

\* GET /api/products/:id: the product is answered when it is of the requested store
ProductsGetOne(r) ==
    /\ reqs[r].pc = "getProduct"
    /\ LET id == reqs[r].id
       IN  reqs' = [reqs EXCEPT ![r].pc = "done",
                ![r].resp =
                    IF id \notin DOMAIN products THEN Resp(404, "Product not found")
                    ELSE IF products[id].storeId # reqs[r].storeId
                        THEN Resp(403, "Access denied: Product does not belong to this store")
                    ELSE Resp(200, "ok"),
                ![r].jsonProducts =
                    IF id \in DOMAIN products /\ products[id].storeId = reqs[r].storeId
                    THEN MapSet(<<>>, id, products[id]) ELSE <<>>]
    /\ UNCHANGED <<store, aside>>

\* GET /api/products/low-stock: the middleware chain
ProductsLowStock(r, tokens, storeIds) ==
    /\ Arrives(r)
    /\ \E token \in tokens, storeId \in storeIds :
          LET gate == RunMiddleware(CustomersChain, token, storeId)
              req == Request("GET /api/products/low-stock", token, storeId, "", NoData)
          IN  reqs' = [reqs EXCEPT ![r] =
                  IF gate # NoResp THEN [req EXCEPT !.resp = gate]
                  ELSE [req EXCEPT !.pc = "getLowStock"]]
    /\ UNCHANGED <<store, aside>>

\* res.json(await storage.getLowStockProducts(req.storeId))
ProductsLowStockRead(r) ==
    /\ reqs[r].pc = "getLowStock"
    /\ reqs' = [reqs EXCEPT ![r].pc = "done", ![r].resp = Resp(200, "ok"),
                            ![r].jsonProducts = [p \in getLowStockProducts |-> products[p]]]
    /\ UNCHANGED <<store, aside>>

\* GET /api/sales/:id/items: requireAuth only
SaleItemsGet(r, tokens, saleIds) ==
    /\ Arrives(r)
    /\ \E token \in tokens, saleId \in saleIds :
          LET gate == requireAuth(token)
              req == [Request("GET /api/sales/:id/items", token, "", "", NoData)
                          EXCEPT !.saleId = saleId]
          IN  reqs' = [reqs EXCEPT ![r] =
                  IF gate # NoResp THEN [req EXCEPT !.resp = gate]
                  ELSE [req EXCEPT !.resp = Resp(200, "ok"),
                                   !.jsonItems = getSaleItems(saleId)]]
    /\ UNCHANGED <<store, aside>>

\* GET /api/inventory/movements/:productId: requireAuth, then the session's user
MovementsGet(r, tokens, ids) ==
    /\ Arrives(r)
    /\ \E token \in tokens, id \in ids :
          LET gate == requireAuth(token)
              userId == SessionOf(token).userId
              req == Request("GET /api/inventory/movements/:productId", token, "", id, NoData)
          IN  reqs' = [reqs EXCEPT ![r] =
                  IF gate # NoResp THEN [req EXCEPT !.resp = gate]
                  ELSE IF userId \notin DOMAIN users
                      THEN [req EXCEPT !.resp = Resp(401, "User not found")]
                  ELSE [req EXCEPT !.pc = "getMovements",
                                   !.userStore = users[userId].storeId]]
    /\ UNCHANGED <<store, aside>>

\* storage.getInventoryMovements(productId, user.storeId): the store is not read
MovementsRead(r) ==
    /\ reqs[r].pc = "getMovements"
    /\ reqs' = [reqs EXCEPT ![r].pc = "done", ![r].resp = Resp(200, "ok"),
                            ![r].jsonMovements = getInventoryMovements(reqs[r].id)]
    /\ UNCHANGED <<store, aside>>

(***************************************************************************)
(* POSInterface: the cart of the client.  A CartItem holds id, productId,  *)
(* price, quantity and total (its name is not read by the callbacks).      *)
(* Every callback sets the state with a function of the state before.      *)
(***************************************************************************)
MaxQty == 3

ItemIds == {"i1", "i2", "i3"}

NoClick == [handler |-> "", productId |-> "", itemId |-> "", quantity |-> 0]

\* (an addToCart that adds a new line whether or not the product is in the cart)
addToCartNewLine(prev, productId, sellingPrice, id) ==
    Append(prev, [id |-> id, productId |-> productId, price |-> sellingPrice,
                  quantity |-> 1, total |-> sellingPrice])

\* the function addToCart gives to setCartItems; id is the Math.random
\* string of the new item
addToCart(prev, productId, sellingPrice, id) ==
    IF \E k \in 1..Len(prev) : prev[k].productId = productId
    THEN LET Inc(item) ==
                 IF item.productId = productId
                 THEN [item EXCEPT !.quantity = item.quantity + 1,
                                   !.total = (item.quantity + 1) * item.price]
                 ELSE item
         IN  [k \in 1..Len(prev) |-> Inc(prev[k])]
    ELSE Append(prev, [id |-> id, productId |-> productId, price |-> sellingPrice,
                       quantity |-> 1, total |-> sellingPrice])

\* prev.filter(item => item.id !== itemId)
removeItem(prev, itemId) ==
    LET Kept(item) == item.id # itemId IN SelectSeq(prev, Kept)

updateQuantity(prev, itemId, quantity) ==
    IF quantity <= 0 THEN removeItem(prev, itemId)
    ELSE LET Set(item) ==
                 IF item.id = itemId
                 THEN [item EXCEPT !.quantity = quantity, !.total = quantity * item.price]
                 ELSE item
         IN  [k \in 1..Len(prev) |-> Set(prev[k])]

clearCart == <<>>

\* the quantity of the line of product p, 0 when the cart has none
QuantityOf(items, p) ==
    IF \E k \in 1..Len(items) : items[k].productId = p
    THEN items[CHOOSE k \in 1..Len(items) : items[k].productId = p].quantity
    ELSE 0

\* a click on a product of the grid: the product is one the client holds,
\* with the id and the sellingPrice it has in storage
AddToCart(ids) ==
    /\ \E p \in ids \cap DOMAIN products, id \in ItemIds :
          /\ QuantityOf(cartItems, p) < MaxQty
          /\ cartItems' = addToCart(cartItems, p, products[p].sellingPrice, id)
          /\ click' = [NoClick EXCEPT !.handler = "addToCart", !.productId = p, !.itemId = id]
    /\ UNCHANGED <<store, reqs, suppliers, categories, cashFlowEntries>>

UpdateQuantity(quantities) ==
    /\ \E itemId \in ItemIds, quantity \in quantities :
          /\ cartItems' = updateQuantity(cartItems, itemId, quantity)
          /\ click' = [NoClick EXCEPT !.handler = "updateQuantity", !.itemId = itemId,
                                      !.quantity = quantity]
    /\ UNCHANGED <<store, reqs, suppliers, categories, cashFlowEntries>>

RemoveItem ==
    /\ \E itemId \in ItemIds :
          /\ cartItems' = removeItem(cartItems, itemId)
          /\ click' = [NoClick EXCEPT !.handler = "removeItem", !.itemId = itemId]
    /\ UNCHANGED <<store, reqs, suppliers, categories, cashFlowEntries>>

ClearCart ==
    /\ cartItems' = clearCart
    /\ click' = [NoClick EXCEPT !.handler = "clearCart"]
    /\ UNCHANGED <<store, reqs, suppliers, categories, cashFlowEntries>>

(***************************************************************************)
(* The state after construction and the logins of the users.               *)
(***************************************************************************)
Product(storeId, isActive, sellingPrice, stock) ==
    [storeId |-> storeId, isActive |-> isActive, sellingPrice |-> sellingPrice,
     stock |-> stock, minStockLevel |-> 1000]

User(role, storeId) ==
    [username |-> "", password |-> "pw", role |-> role, storeId |-> storeId,
     isActive |-> TRUE]

Session(userId) ==
    [userId |-> userId, username |-> users[userId].username, role |-> users[userId].role]

\* the user the constructor creates (role "admin", no store) and the users
\* created after it; offA is a cashier of store A whose account is disabled.
\* Every user's username is its key.
InitUsers ==
    [u \in UserIds |->
        [(CASE u = "seed" -> [User("admin", "") EXCEPT !.password = "admin123"]
            [] u = "admin" -> User("administrator", "")
            [] u = "ownerA" -> User("owner", "A")
            [] u = "cashA" -> User("cashier", "A")
            [] u = "ownerB" -> User("owner", "B")
            [] u = "offA" -> [User("cashier", "A") EXCEPT !.isActive = FALSE])
         EXCEPT !.username = u]]

InitProducts ==
    [p \in {"p1", "p2", "p3", "p4"} |->
        CASE p = "p1" -> Product("A", TRUE, 2000, 2000)
          [] p = "p2" -> Product("A", TRUE, 47, 1000)
          [] p = "p3" -> Product("B", TRUE, 2000, 2000)
          [] p = "p4" -> Product("A", FALSE, 2000, 2000)]

Customer(storeId, name) == [storeId |-> storeId, name |-> name]

InitCustomers ==
    [c \in {"c1", "c2"} |->
        CASE c = "c1" -> Customer("A", "Ann")
          [] c = "c2" -> Customer("B", "Bob")]

TokenUser(t) ==
    CASE t = "tSeed" -> "seed"
      [] t = "tAdmin" -> "admin"
      [] t = "tOwnerA" -> "ownerA"
      [] t = "tCashA" -> "cashA"
      [] t = "tOwnerB" -> "ownerB"

Init ==
    /\ users = InitUsers
    /\ sessions = [t \in Tokens \ {"tBad"} |-> Session(TokenUser(t))]
    /\ customers = InitCustomers
    /\ products = InitProducts
    /\ sales = <<>>
    /\ saleItems = <<>>
    /\ inventoryMovements = <<>>
    /\ reqs = [r \in ReqIds |-> Idle]
    /\ suppliers = <<>>
    /\ categories = <<>>
    /\ cashFlowEntries = <<>>
    /\ cartItems = <<>>
    /\ click = NoClick

(***************************************************************************)
(* Sales by one cashier of store A.                                        *)
(***************************************************************************)
Line(productId, quantity, unitPrice) ==
    [productId |-> productId, quantity |-> quantity, unitPrice |-> unitPrice,
     total |-> toFixed2(unitPrice * quantity)]

SaleLines ==
    {Line("p1", 1000, 2000), Line("p1", 1000, 1), Line("p1", 2000, 2000), Line("p2", 10, 47),
     Line("p2", 2000, 47), Line("p3", 1000, 2000), Line("p4", 1000, 2000),
     Line("p5", 1000, 2000)}

RECURSIVE Carts(_, _)
Carts(lines, n) ==
    IF n = 0 THEN {<<>>}
    ELSE LET shorter == Carts(lines, n - 1)
         IN  shorter \cup {Append(c, l) : c \in {s \in shorter : Len(s) = n - 1}, l \in lines}

SaleBody(items) ==
    [items |-> items, paymentMethod |-> "cash", customerId |-> "walk-in",
     total |-> 0, tax |-> 0, storeId |-> "", userId |-> ""]

SaleBodies == [n \in 0..MaxLines |-> {SaleBody(c) : c \in Carts(SaleLines, n) \ {<<>>}}]

\* Concurrent sale requests: a request may arrive while others are suspended.
NextSales ==
    \E r \in ReqIds :
        \/ SalesPost(r, {"tCashA"}, {"A"}, SaleBodies)
        \/ SalesLine(r)
        \/ ProcessSaleAtomic(r)
        \/ CommitSaleItem(r)
        \/ CommitStock(r)
        \/ CommitMovement(r)

SpecSales == Init /\ [][NextSales]_vars

Quiescent == \A r \in ReqIds : reqs[r].pc \in {"idle", "done"}

\* A sequence of sale requests: each arrives after the one before it was answered.
NextSerial ==
    \E r \in ReqIds :
        \/ Quiescent /\ SalesPost(r, {"tCashA"}, {"A"}, SaleBodies)
        \/ SalesLine(r)
        \/ ProcessSaleAtomic(r)
        \/ CommitSaleItem(r)
        \/ CommitStock(r)
        \/ CommitMovement(r)

SpecSerial == Init /\ [][NextSerial]_vars

\* Concurrent sale requests of one cart line each.
RaceLines == {Line("p1", 1000, 2000), Line("p1", 2000, 2000), Line("p2", 1000, 47)}

RaceBodies == [n \in 0..MaxLines |-> IF n = 0 THEN {} ELSE {SaleBody(<<l>>) : l \in RaceLines}]

NextRace ==
    \E r \in ReqIds :
        \/ SalesPost(r, {"tCashA", "tOwnerA"}, {"A"}, RaceBodies)
        \/ SalesLine(r)
        \/ ProcessSaleAtomic(r)
        \/ CommitSaleItem(r)
        \/ CommitStock(r)
        \/ CommitMovement(r)

SpecRace == Init /\ [][NextRace]_vars

\* Concurrent sale requests whose commit phase may throw at any of its awaits.
FaultBodies == [n \in 0..MaxLines |-> {SaleBody(c) : c \in Carts(RaceLines, n) \ {<<>>}}]

NextFault ==
    \E r \in ReqIds :
        \/ SalesPost(r, {"tCashA"}, {"A"}, FaultBodies)
        \/ SalesLine(r)
        \/ ProcessSaleAtomic(r)
        \/ CommitSaleItem(r)
        \/ CommitStock(r)
        \/ CommitMovement(r)
        \/ CommitThrows(r)

SpecFault == Init /\ [][NextFault]_vars

(***************************************************************************)
(* The routes behind validateStoreAccess, asked for either store by users  *)
(* of either store, an administrator and the user the constructor creates. *)
(***************************************************************************)
GateTokens == {"tSeed", "tAdmin", "tOwnerA", "tOwnerB"}

GateBodies ==
    [n \in 0..MaxLines |->
        IF n = 0 THEN {}
        ELSE {SaleBody(<<Line("p1", 1000, 2000)>>), SaleBody(<<Line("p3", 1000, 2000)>>)}]

CustomerDatas == {[NoData EXCEPT !.fields = {"name"}, !.name = "Cy"]}

NextGate ==
    \E r \in ReqIds :
        \/ SalesPost(r, GateTokens, StoreIds, GateBodies)
        \/ SalesLine(r)
        \/ ProcessSaleAtomic(r)
        \/ CommitSaleItem(r)
        \/ CommitStock(r)
        \/ CommitMovement(r)
        \/ CustomersPost(r, GateTokens, StoreIds, CustomerDatas)
        \/ CustomersCreate(r)
        \/ CustomersPut(r, GateTokens, StoreIds, {"c1", "c2"}, CustomerDatas)
        \/ CustomersPutGet(r)
        \/ CustomersPutUpdate(r)

SpecGate == Init /\ [][NextGate]_vars

(***************************************************************************)
(* The routes that create, change or delete a product or a customer, and   *)
(* the inventory adjustment, asked by an administrator, an owner and a     *)
(* cashier of store A.                                                     *)
(***************************************************************************)
MutateTokens == {"tAdmin", "tOwnerA", "tCashA"}

ProductDatas ==
    {[NoData EXCEPT !.fields = {"storeId", "sellingPrice"}, !.storeId = s,
                    !.sellingPrice = 500] : s \in StoreIds}

ProductPatches == {[NoData EXCEPT !.fields = {"sellingPrice"}, !.sellingPrice = 100]}

Adjustments == {0 - 1000, 1000}

NextMutate ==
    \E r \in ReqIds :
        \/ ProductsPost(r, MutateTokens, ProductDatas)
        \/ ProductsPut(r, MutateTokens, {"p1", "p3"}, ProductPatches)
        \/ ProductsDelete(r, MutateTokens, {"p1", "p3"})
        \/ CustomersPut(r, MutateTokens, StoreIds, {"c1", "c2"}, CustomerDatas)
        \/ CustomersPutGet(r)
        \/ CustomersPutUpdate(r)
        \/ CustomersDelete(r, MutateTokens, {"c1", "c2"})
        \/ InventoryAdjustment(r, MutateTokens, {"p1", "p3"}, Adjustments)
        \/ AdjustStock(r)
        \/ AdjustMovement(r)

SpecMutate == Init /\ [][NextMutate]_vars

(***************************************************************************)
(* Reads by an owner of store A and an administrator while an owner of     *)
(* store B sells a product of store B.                                     *)
(***************************************************************************)
ReadTokens == {"tOwnerA", "tAdmin"}

ReadBodies ==
    [n \in 0..MaxLines |-> IF n = 0 THEN {} ELSE {SaleBody(<<Line("p3", 1000, 2000)>>)}]

NextRead ==
    \E r \in ReqIds :
        \/ SalesPost(r, {"tOwnerB"}, {"B"}, ReadBodies)
        \/ SalesLine(r)
        \/ ProcessSaleAtomic(r)
        \/ CommitSaleItem(r)
        \/ CommitStock(r)
        \/ CommitMovement(r)
        \/ ProductsList(r, ReadTokens, StoreIds)
        \/ ProductsGetAll(r)
        \/ ProductsGet(r, ReadTokens, StoreIds, {"p1", "p3", "p5"})
        \/ ProductsGetOne(r)
        \/ SaleItemsGet(r, ReadTokens, ReqIds)
        \/ MovementsGet(r, ReadTokens, {"p1", "p3"})
        \/ MovementsRead(r)

SpecRead == Init /\ [][NextRead]_vars

(***************************************************************************)
(* Sales and inventory adjustments by an owner of store A, one request     *)
(* after the other.                                                        *)
(***************************************************************************)
AuditBodies == [n \in 0..MaxLines |-> {SaleBody(c) : c \in Carts(RaceLines, n) \ {<<>>}}]

NextAudit ==
    \E r \in ReqIds :
        \/ Quiescent /\ SalesPost(r, {"tOwnerA"}, {"A"}, AuditBodies)
        \/ SalesLine(r)
        \/ ProcessSaleAtomic(r)
        \/ CommitSaleItem(r)
        \/ CommitStock(r)
        \/ CommitMovement(r)
        \/ Quiescent /\ InventoryAdjustment(r, {"tOwnerA"}, {"p1", "p2", "p5"}, Adjustments)
        \/ AdjustStock(r)
        \/ AdjustMovement(r)

SpecAudit == Init /\ [][NextAudit]_vars

(***************************************************************************)
(* Everything that writes a product's stock: sales, inventory adjustments  *)
(* and product updates whose body has a stock, by an owner of store A.     *)
(***************************************************************************)
StockPatches == {[NoData EXCEPT !.fields = {"stock"}, !.stock = 5000]}

NextStock ==
    \E r \in ReqIds :
        \/ SalesPost(r, {"tOwnerA"}, {"A"}, RaceBodies)
        \/ SalesLine(r)
        \/ ProcessSaleAtomic(r)
        \/ CommitSaleItem(r)
        \/ CommitStock(r)
        \/ CommitMovement(r)
        \/ InventoryAdjustment(r, {"tOwnerA"}, {"p1", "p2"}, Adjustments)
        \/ AdjustStock(r)
        \/ AdjustMovement(r)
        \/ ProductsPut(r, {"tOwnerA"}, {"p1", "p2"}, StockPatches)

SpecStock == Init /\ [][NextStock]_vars

(***************************************************************************)
(* Inventory adjustments of a product together with reads of the product   *)
(* and of its movements, by an owner of store A.                           *)
(***************************************************************************)
NextAdjust ==
    \E r \in ReqIds :
        \/ InventoryAdjustment(r, {"tOwnerA"}, {"p1", "p5"}, Adjustments)
        \/ AdjustStock(r)
        \/ AdjustMovement(r)
        \/ ProductsGet(r, {"tOwnerA"}, {"A"}, {"p1"})
        \/ ProductsGetOne(r)
        \/ MovementsGet(r, {"tOwnerA"}, {"p1", "p5"})
        \/ MovementsRead(r)

SpecAdjust == Init /\ [][NextAdjust]_vars

(***************************************************************************)
(* Every route, asked without a token, with a token that is not a session  *)
(* and with the token of an owner of store A, with and without a store.    *)
(***************************************************************************)
AuthTokens == {"", "tBad", "tOwnerA"}

AuthStores == {"", "A"}

AuthBodies ==
    [n \in 0..MaxLines |-> IF n = 0 THEN {} ELSE {SaleBody(<<Line("p1", 1000, 2000)>>)}]

NextAuth ==
    \E r \in ReqIds :
        \/ SalesPost(r, AuthTokens, AuthStores, AuthBodies)
        \/ SalesLine(r)
        \/ ProcessSaleAtomic(r)
        \/ CommitSaleItem(r)
        \/ CommitStock(r)
        \/ CommitMovement(r)
        \/ ProductsList(r, AuthTokens, AuthStores)
        \/ ProductsGetAll(r)
        \/ ProductsGet(r, AuthTokens, AuthStores, {"p1"})
        \/ ProductsGetOne(r)
        \/ ProductsPost(r, AuthTokens, ProductDatas)
        \/ ProductsPut(r, AuthTokens, {"p1"}, ProductPatches)
        \/ ProductsDelete(r, AuthTokens, {"p1"})
        \/ CustomersPost(r, AuthTokens, AuthStores, CustomerDatas)
        \/ CustomersCreate(r)
        \/ CustomersPut(r, AuthTokens, AuthStores, {"c1"}, CustomerDatas)
        \/ CustomersPutGet(r)
        \/ CustomersPutUpdate(r)
        \/ CustomersDelete(r, AuthTokens, {"c1"})
        \/ SaleItemsGet(r, AuthTokens, {1})
        \/ MovementsGet(r, AuthTokens, {"p1"})
        \/ MovementsRead(r)
        \/ InventoryAdjustment(r, AuthTokens, {"p1"}, Adjustments)
        \/ AdjustStock(r)
        \/ AdjustMovement(r)

SpecAuth == Init /\ [][NextAuth]_vars

(***************************************************************************)
(* Logins with right and wrong passwords, of an owner, of a disabled       *)
(* account and of an unknown user, and requests bearing the tokens given.  *)
(***************************************************************************)
LoginNames == {"ownerA", "offA", "nobody"}

LoginPasswords == {"pw", "bad"}

NextLogin ==
    \E r \in ReqIds :
        \/ Login(r, LoginNames, LoginPasswords)
        \/ LoginSession(r)
        \/ SaleItemsGet(r, {NewToken(q) : q \in ReqIds}, {1})

SpecLogin == Init /\ [][NextLogin]_vars

(***************************************************************************)
(* Logins, logouts and requests bearing a token: the token of a session    *)
(* that exists from the start, a token given by a login, no session's      *)
(* token.                                                                  *)
(***************************************************************************)
SessionTokens == {"tOwnerA", "tCashA", "tBad"} \cup {NewToken(q) : q \in ReqIds}

NextSession ==
    \E r \in ReqIds :
        \/ Login(r, {"ownerA"}, LoginPasswords)
        \/ LoginSession(r)
        \/ Logout(r, SessionTokens)
        \/ SaleItemsGet(r, SessionTokens, {1})
        \/ ProductsList(r, SessionTokens, {"A"})
        \/ ProductsGetAll(r)

SpecSession == Init /\ [][NextSession]_vars

(***************************************************************************)
(* Sales whose commit phase may throw, together with everything else that  *)
(* writes products or movements: product updates and deletions and         *)
(* inventory adjustments, by an owner of store A.                          *)
(***************************************************************************)
LedgerLines == {Line("p1", 1000, 2000), Line("p2", 1000, 47)}

\* carts of one line, and a cart of two lines of one product
LedgerBodies ==
    [n \in 0..MaxLines |->
        IF n = 0 THEN {}
        ELSE {SaleBody(<<l>>) : l \in LedgerLines}
             \cup (IF n = 1 THEN {}
                   ELSE {SaleBody(<<Line("p1", 1000, 2000), Line("p1", 1000, 2000)>>)})]

NextLedger ==
    \E r \in ReqIds :
        \/ SalesPost(r, {"tOwnerA"}, {"A"}, LedgerBodies)
        \/ SalesLine(r)
        \/ ProcessSaleAtomic(r)
        \/ CommitSaleItem(r)
        \/ CommitStock(r)
        \/ CommitMovement(r)
        \/ CommitThrows(r)
        \/ ProductsPut(r, {"tOwnerA"}, {"p1"}, ProductPatches)
        \/ ProductsDelete(r, {"tOwnerA"}, {"p1"})
        \/ InventoryAdjustment(r, {"tOwnerA"}, {"p1"}, {1000})
        \/ AdjustStock(r)
        \/ AdjustMovement(r)

SpecLedger == Init /\ [][NextLedger]_vars

(***************************************************************************)
(* Sale requests of every shape: no cart, an unknown payment method, lines *)
(* without a productId or with a quantity that is not positive, lines of a *)
(* missing product, of a product of the other store, of an inactive        *)
(* product and lines that ask for more than the stock, by an owner of      *)
(* store A and by an administrator for either store.                       *)
(***************************************************************************)
ShapeLines ==
    {Line("p1", 1000, 2000), Line("p1", 3000, 2000), Line("p3", 3000, 2000),
     Line("p4", 3000, 2000), Line("p5", 1000, 2000), Line("", 1000, 2000),
     Line("p1", 0, 2000), Line("p1", 0 - 1000, 2000)}

ShapeBodies ==
    [n \in 0..MaxLines |->
        {SaleBody(c) : c \in Carts(ShapeLines, n)}
        \cup (IF n = 0 THEN {}
              ELSE {[SaleBody(<<l>>) EXCEPT !.paymentMethod = m] :
                        l \in {Line("p1", 1000, 2000), Line("p1", 0, 2000)},
                        m \in {"", "cheque"}})]

NextShape ==
    \E r \in ReqIds :
        \/ SalesPost(r, {"tOwnerA", "tAdmin"}, StoreIds, ShapeBodies)
        \/ SalesLine(r)
        \/ ProcessSaleAtomic(r)
        \/ CommitSaleItem(r)
        \/ CommitStock(r)
        \/ CommitMovement(r)

SpecShape == Init /\ [][NextShape]_vars

(***************************************************************************)
(* Sale requests whose lines fail the checks of the handler in every       *)
(* combination, by an owner of store A and by an administrator for either  *)
(* store: p3 is of store B and has less than is asked, p4 is of store A,   *)
(* inactive and has less than is asked, p5 does not exist.                 *)
(***************************************************************************)
ClassifyLines ==
    {Line("p1", 1000, 2000), Line("p1", 3000, 2000), Line("p3", 3000, 2000),
     Line("p4", 3000, 2000), Line("p5", 1000, 2000)}

ClassifyBodies ==
    [n \in 0..MaxLines |-> {SaleBody(c) : c \in Carts(ClassifyLines, n) \ {<<>>}}]

NextClassify ==
    \E r \in ReqIds :
        \/ SalesPost(r, {"tOwnerA"}, {"A"}, ClassifyBodies)
        \/ SalesPost(r, {"tAdmin"}, StoreIds, ClassifyBodies)
        \/ SalesLine(r)
        \/ ProcessSaleAtomic(r)
        \/ CommitSaleItem(r)
        \/ CommitStock(r)
        \/ CommitMovement(r)

SpecClassify == Init /\ [][NextClassify]_vars

(***************************************************************************)
(* Reads of the low-stock list together with sales and inventory           *)
(* adjustments that take the stock of a product to its minimum level,      *)
(* below it and above it, by an owner of store A.                          *)
(***************************************************************************)
NextLowStock ==
    \E r \in ReqIds :
        \/ SalesPost(r, {"tOwnerA"}, {"A"}, RaceBodies)
        \/ SalesLine(r)
        \/ ProcessSaleAtomic(r)
        \/ CommitSaleItem(r)
        \/ CommitStock(r)
        \/ CommitMovement(r)
        \/ InventoryAdjustment(r, {"tOwnerA"}, {"p1", "p2"}, Adjustments)
        \/ AdjustStock(r)
        \/ AdjustMovement(r)
        \/ ProductsLowStock(r, {"tOwnerA"}, {"A"})
        \/ ProductsLowStockRead(r)

SpecLowStock == Init /\ [][NextLowStock]_vars

(***************************************************************************)
(* Sales by an owner of store A and by an administrator for either store,  *)
(* whose bodies name a store and a user of their own, while an owner of    *)
(* store A moves a product to the other store or deletes it.               *)
(***************************************************************************)
TenantBodies ==
    [n \in 0..MaxLines |->
        {[SaleBody(c) EXCEPT !.storeId = "B", !.userId = "ownerB"] :
            c \in Carts({Line("p1", 1000, 2000), Line("p3", 1000, 2000)}, n) \ {<<>>}}]

StorePatches == {[NoData EXCEPT !.fields = {"storeId"}, !.storeId = "B"]}

NextTenant ==
    \E r \in ReqIds :
        \/ SalesPost(r, {"tOwnerA"}, {"A"}, TenantBodies)
        \/ SalesPost(r, {"tAdmin"}, StoreIds, TenantBodies)
        \/ SalesLine(r)
        \/ ProcessSaleAtomic(r)
        \/ CommitSaleItem(r)
        \/ CommitStock(r)
        \/ CommitMovement(r)
        \/ ProductsPut(r, {"tOwnerA"}, {"p1"}, StorePatches)
        \/ ProductsDelete(r, {"tOwnerA"}, {"p1"})

SpecTenant == Init /\ [][NextTenant]_vars

(***************************************************************************)
(* Concurrent sale requests whose commit phase may throw, each resumed     *)
(* after every await: a handler that can go on is run by the event loop.   *)
(***************************************************************************)
\* the step a suspended sale request goes on with when no step throws
SaleStep(r) ==
    \/ SalesLine(r)
    \/ ProcessSaleAtomic(r)
    \/ CommitSaleItem(r)
    \/ CommitStock(r)
    \/ CommitMovement(r)

OutcomeBodies ==
    [n \in 0..MaxLines |->
        IF n = 0 THEN {}
        ELSE {SaleBody(<<l>>) : l \in {Line("p1", 1000, 2000), Line("p1", 3000, 2000)}}
             \cup (IF n = 1 THEN {}
                   ELSE {SaleBody(<<Line("p1", 1000, 2000), Line("p2", 1000, 47)>>)})]

NextOutcome ==
    \E r \in ReqIds :
        \/ SalesPost(r, {"tCashA", "tBad"}, {"A"}, OutcomeBodies)
        \/ SalesLine(r)
        \/ ProcessSaleAtomic(r)
        \/ CommitSaleItem(r)
        \/ CommitStock(r)
        \/ CommitMovement(r)
        \/ CommitThrows(r)

SpecOutcome == Init /\ [][NextOutcome]_vars /\ \A r \in ReqIds : WF_vars(SaleStep(r))

(***************************************************************************)
(* What the properties speak of.                                           *)
(***************************************************************************)
RECURSIVE QtySum(_, _)
\* the quantity of product p in a list of cart lines or sale items
QtySum(items, p) ==
    IF items = <<>> THEN 0
    ELSE (IF Head(items).productId = p THEN Head(items).quantity ELSE 0)
         + QtySum(Tail(items), p)

Succeeded == {r \in ReqIds : reqs[r].pc = "done" /\ reqs[r].resp.status = 201}

Failed == {r \in ReqIds : reqs[r].pc = "done" /\ reqs[r].resp.status # 201}

RECURSIVE CartQty(_, _)
\* the quantity of product p in the carts of the requests R
CartQty(R, p) ==
    IF R = {} THEN 0
    ELSE LET r == CHOOSE x \in R : TRUE
         IN  QtySum(reqs[r].body.items, p) + CartQty(R \ {r}, p)

\* the number of cart lines of request r whose stock write has been made
WrittenLines(r) ==
    CASE reqs[r].pc \in {"item", "stock"} -> reqs[r].i - 1
      [] reqs[r].pc = "move" -> reqs[r].i
      [] reqs[r].pc = "done" /\ reqs[r].resp.status = 201 -> Len(reqs[r].validatedItems)
      [] OTHER -> 0

RECURSIVE WrittenQty(_, _)
\* the quantity of product p in the stock writes made so far by the sales of
\* the requests R that are committing or have committed
WrittenQty(R, p) ==
    IF R = {} THEN 0
    ELSE LET r == CHOOSE x \in R : TRUE
         IN  QtySum(SubSeq(reqs[r].validatedItems, 1, WrittenLines(r)), p)
             + WrittenQty(R \ {r}, p)

CartProducts(r) == {reqs[r].body.items[k].productId : k \in 1..Len(reqs[r].body.items)}

\* request r has passed a stock check and has not made its last stock write
InWindow(r) ==
    \/ reqs[r].pc = "line" /\ reqs[r].i > 1
    \/ reqs[r].pc \in {"psa", "item", "stock"}
    \/ reqs[r].pc = "move" /\ reqs[r].i < Len(reqs[r].validatedItems)

(***************************************************************************)
(* C1.  Stock is never negative: in every state reached by a sequence of   *)
(* POST /api/sales requests, every product's stock is >= 0.                *)
(***************************************************************************)
C1_StockNeverNegative == \A p \in DOMAIN products : products[p].stock >= 0

(***************************************************************************)
(* C2.  Concurrent sale requests on one product end as some serial order   *)
(* of them would: once all are answered, the quantity sold by the requests *)
(* that succeeded is at most the initial stock, the stock is the initial   *)
(* stock minus that quantity, and it is not negative.                      *)
(***************************************************************************)
C2_SerialOutcome ==
    Quiescent =>
        \A p \in DOMAIN products :
            /\ CartQty(Succeeded, p) <= InitProducts[p].stock
            /\ products[p].stock = InitProducts[p].stock - CartQty(Succeeded, p)
            /\ products[p].stock >= 0

(***************************************************************************)
(* C3.  Validate+commit runs under mutual exclusion: no two requests are   *)
(* at the same time between their stock check and their last stock write   *)
(* with a product in both carts.                                           *)
(***************************************************************************)
C3_MutualExclusion ==
    \A r1, r2 \in ReqIds :
        (r1 # r2 /\ InWindow(r1) /\ InWindow(r2)) =>
            CartProducts(r1) \cap CartProducts(r2) = {}

(***************************************************************************)
(* C4.  A sale request that fails validation leaves nothing behind: no     *)
(* Sale, no SaleItem and no movement carries its id, and every product's   *)
(* stock is the initial stock minus the stock writes of the other          *)
(* requests' sales only.                                                   *)
(***************************************************************************)
C4_FailedValidationLeavesNothing ==
    /\ \A r \in Failed :
          /\ SaleIdOf(r) \notin DOMAIN sales
          /\ SaleIdOf(r) \notin DOMAIN saleItems
          /\ \A p \in DOMAIN inventoryMovements :
                \A k \in 1..Len(inventoryMovements[p]) :
                    inventoryMovements[p][k].reason # SaleIdOf(r)
    /\ \A p \in DOMAIN products :
          products[p].stock = InitProducts[p].stock - WrittenQty(ReqIds \ Failed, p)

\* line 2 of a cart of two lines failed the stock check after line 1 passed
C4_Witness ==
    \E r \in Failed :
        /\ Len(reqs[r].body.items) = 2
        /\ Len(reqs[r].validatedItems) = 1
        /\ reqs[r].resp = [status |-> 400, message |-> "Insufficient stock"]

(***************************************************************************)
(* C5.  When a step of the commit phase fails after the Sale header was    *)
(* created, the product map is put back to what it was when the attempt    *)
(* began (the backup is the map of that moment and is kept through the     *)
(* commit phase) and the request is answered with an error.                *)
(***************************************************************************)
CommitPcs == {"item", "stock", "move"}

C5_RollbackRestoresStock ==
    [][\A r \in ReqIds :
          /\ (reqs[r].pc = "psa" /\ reqs'[r].pc = "item")
                => reqs'[r].originalProducts = products
          /\ (reqs[r].pc \in CommitPcs /\ reqs'[r].pc \in CommitPcs)
                => reqs'[r].originalProducts = reqs[r].originalProducts
          /\ (reqs[r].pc \in CommitPcs /\ reqs'[r].pc = "done" /\ reqs'[r].resp.status # 201)
                => /\ products' = reqs[r].originalProducts
                   /\ reqs'[r].resp.status = 400]_vars

\* an attempt failed on its second line, after the stock write of its first,
\* and the stock of that line's product is back at its initial value
C5_Witness ==
    \E r \in Failed :
        /\ reqs[r].resp.message = "Unknown error during sales processing"
        /\ reqs[r].i = 2
        /\ \A q \in ReqIds \ {r} : reqs[q].pc = "idle"
        /\ products = InitProducts

(***************************************************************************)
(* C6.  A sale attempt that failed leaves no Sale record and no SaleItem   *)
(* under its id.                                                           *)
(***************************************************************************)
C6_FailedSaleLeavesNoRecord ==
    \A r \in Failed :
        /\ SaleIdOf(r) \notin DOMAIN sales
        /\ getSaleItems(SaleIdOf(r)) = <<>>

(***************************************************************************)
(* C7.  Price integrity: two sales whose carts have the same products and  *)
(* quantities, line by line, have the same total, tax and priced items,    *)
(* whatever unitPrice, total and tax the clients sent.                     *)
(***************************************************************************)
SameOrder(r1, r2) ==
    /\ Len(reqs[r1].body.items) = Len(reqs[r2].body.items)
    /\ \A k \in 1..Len(reqs[r1].body.items) :
          /\ reqs[r1].body.items[k].productId = reqs[r2].body.items[k].productId
          /\ reqs[r1].body.items[k].quantity = reqs[r2].body.items[k].quantity

PricedItems(r) ==
    [k \in 1..Len(getSaleItems(SaleIdOf(r))) |->
        [productId |-> getSaleItems(SaleIdOf(r))[k].productId,
         quantity |-> getSaleItems(SaleIdOf(r))[k].quantity,
         unitPrice |-> getSaleItems(SaleIdOf(r))[k].unitPrice,
         total |-> getSaleItems(SaleIdOf(r))[k].total]]

C7_PriceIntegrity ==
    \A r1, r2 \in Succeeded :
        SameOrder(r1, r2) =>
            /\ sales[SaleIdOf(r1)].total = sales[SaleIdOf(r2)].total
            /\ sales[SaleIdOf(r1)].tax = sales[SaleIdOf(r2)].tax
            /\ PricedItems(r1) = PricedItems(r2)

\* two committed sales of the same order, one sent with a forged unitPrice
C7_Witness ==
    \E r1, r2 \in Succeeded :
        /\ SameOrder(r1, r2)
        /\ \E k \in 1..Len(reqs[r1].body.items) :
              reqs[r1].body.items[k].unitPrice # reqs[r2].body.items[k].unitPrice

(***************************************************************************)
(* C8.  In two-decimal fixed point, for every committed sale: each item's  *)
(* unitPrice is the product's sellingPrice and its line total is           *)
(* unitPrice x quantity; with subtotal the sum of the line totals,         *)
(* sale.tax = subtotal x 8.5% and sale.total = subtotal + tax.             *)
(***************************************************************************)
RECURSIVE SumTotals(_)
SumTotals(items) == IF items = <<>> THEN 0 ELSE Head(items).total + SumTotals(Tail(items))

C8_FixedPointTotals ==
    \A r \in Succeeded :
        LET items == getSaleItems(SaleIdOf(r))
            subtotal == SumTotals(items)
            tax == RoundRatio(subtotal, TaxRateNum, TaxRateDen)
        IN  /\ \A k \in 1..Len(items) :
                  /\ items[k].unitPrice = products[items[k].productId].sellingPrice
                  /\ items[k].total = toFixed2(items[k].unitPrice * items[k].quantity)
            /\ sales[SaleIdOf(r)].tax = tax
            /\ sales[SaleIdOf(r)].total = subtotal + tax

(***************************************************************************)
(* C9.  Store-scope gate.  On a route behind validateStoreAccess, a        *)
(* request of a session whose role is not administrator and whose user's   *)
(* store differs from the X-Store-Id header is answered 403 in the step it *)
(* arrives in, before any step of the handler, and that step changes       *)
(* nothing in storage; it stays answered so.  A request of a session whose *)
(* role is administrator is let through to the handler for every store.    *)
(***************************************************************************)
GuardedKinds == {"POST /api/sales", "POST /api/customers", "PUT /api/customers/:id"}

Administrator(q) == q.user.role = "administrator"

\* request q names a store that is not the store of its user
OtherStore(q) ==
    /\ q.kind \in GuardedKinds
    /\ q.user # NoUser
    /\ q.storeId # ""
    /\ ~Administrator(q)
    /\ q.user.userId \in DOMAIN users
    /\ users[q.user.userId].storeId # q.storeId

C9_StoreScopeGate ==
    /\ [](\A r \in ReqIds :
            OtherStore(reqs[r]) =>
                /\ reqs[r].pc = "done"
                /\ reqs[r].resp = Resp(403, AccessDenied)
                /\ reqs[r].validatedItems = <<>>
                /\ ~reqs[r].found)
    /\ [][\A r \in ReqIds :
            (reqs[r].pc = "idle" /\ reqs'[r].pc # "idle") =>
                /\ OtherStore(reqs'[r]) => UNCHANGED store
                /\ (/\ reqs'[r].kind \in GuardedKinds
                    /\ Administrator(reqs'[r])
                    /\ reqs'[r].storeId # "")
                   => reqs'[r].resp.status \notin {401, 403}]_vars

\* an owner of store A was refused store B, and an administrator has created
\* a customer in store B and sold a product of store B
C9_Witness ==
    /\ \E r \in ReqIds :
        /\ OtherStore(reqs[r])
        /\ reqs[r].user.userId = "ownerA"
        /\ reqs[r].storeId = "B"
        /\ reqs[r].resp.status = 403
    /\ \E r \in ReqIds :
        /\ Administrator(reqs[r])
        /\ reqs[r].storeId = "B"
        /\ reqs[r].resp.status = 201

(***************************************************************************)
(* C10.  Store check per record.  A step of a request whose session is not *)
(* an administrator's creates, changes or deletes a product (its stock     *)
(* included) or a customer only if the record's storeId is the store of    *)
(* the session's user.                                                     *)
(***************************************************************************)
\* the records of map m (before) and n (after) that the step touched belong to store home
TouchedIn(m, n, home) ==
    \A k \in (DOMAIN m) \cup (DOMAIN n) :
        (k \notin DOMAIN m \/ k \notin DOMAIN n \/ m[k] # n[k]) =>
            (IF k \in DOMAIN m THEN m[k].storeId ELSE n[k].storeId) = home

C10_PerRecordStoreCheck ==
    [][\A r \in ReqIds :
          (/\ reqs'[r] # reqs[r]
           /\ reqs'[r].user # NoUser
           /\ ~Administrator(reqs'[r])
           /\ reqs'[r].user.userId \in DOMAIN users)
          => /\ TouchedIn(products, products', users[reqs'[r].user.userId].storeId)
             /\ TouchedIn(customers, customers', users[reqs'[r].user.userId].storeId)]_vars

(***************************************************************************)
(* C11.  Read isolation.  The answer given to a request whose session is   *)
(* not an administrator's holds only products of the store of the          *)
(* session's user, only items of sales of that store and only movements of *)
(* products of that store.                                                 *)
(***************************************************************************)
\* all that answer q holds belongs to store home
AnswerOf(q, home) ==
    /\ \A p \in DOMAIN q.jsonProducts : q.jsonProducts[p].storeId = home
    /\ \A k \in 1..Len(q.jsonItems) :
          q.jsonItems[k].saleId \in DOMAIN sales => sales[q.jsonItems[k].saleId].storeId = home
    /\ \A k \in 1..Len(q.jsonMovements) :
          q.jsonMovements[k].productId \in DOMAIN products =>
              products[q.jsonMovements[k].productId].storeId = home

C11_ReadIsolation ==
    [][\A r \in ReqIds :
          (/\ reqs[r].pc # "done"
           /\ reqs'[r].pc = "done"
           /\ reqs'[r].user # NoUser
           /\ ~Administrator(reqs'[r])
           /\ reqs'[r].user.userId \in DOMAIN users)
          => AnswerOf(reqs'[r], users[reqs'[r].user.userId].storeId)]_vars

(***************************************************************************)
(* C12.  Audit completeness.  When every request has been answered, the    *)
(* sum of the quantities of the movements recorded for a product is the    *)
(* product's stock minus its stock at the start.                           *)
(***************************************************************************)
RECURSIVE MovementSum(_)
MovementSum(movements) ==
    IF movements = <<>> THEN 0
    ELSE Head(movements).quantity + MovementSum(Tail(movements))

C12_AuditCompleteness ==
    Quiescent =>
        \A p \in DOMAIN products :
            MovementSum(getInventoryMovements(p)) = products[p].stock - InitProducts[p].stock

(***************************************************************************)
(* C13.  What a successful sale writes.  A sale answered 201 for a cart of *)
(* m lines has one Sale under its id and m SaleItems under that id, the    *)
(* k-th with the productId and quantity of the k-th cart line; for every   *)
(* product it has as many movements of type "out" with the sale's id as    *)
(* reason as the cart has lines of the product.  No other Sale exists than *)
(* those of the sales that reached their commit phase, and every product's *)
(* stock is its stock at the start less the quantities of the cart lines   *)
(* whose stock write was made: a line takes its quantity from its product  *)
(* and from no other.                                                      *)
(***************************************************************************)
\* the positions of the movements of product p recorded for sale id
MovementsOfSale(p, id) ==
    {k \in 1..Len(getInventoryMovements(p)) : getInventoryMovements(p)[k].reason = id}

LinesOfProduct(cart, p) == {k \in 1..Len(cart) : cart[k].productId = p}

Committing == {r \in ReqIds : reqs[r].pc \in {"item", "stock", "move"}}

C13_SaleWrites ==
    /\ DOMAIN sales = {SaleIdOf(r) : r \in Succeeded \cup Committing}
    /\ \A r \in Succeeded :
          LET cart == reqs[r].body.items
              items == getSaleItems(SaleIdOf(r))
          IN  /\ Len(items) = Len(cart)
              /\ \A k \in 1..Len(cart) :
                    /\ items[k].saleId = SaleIdOf(r)
                    /\ items[k].productId = cart[k].productId
                    /\ items[k].quantity = cart[k].quantity
              /\ \A p \in ProductIds :
                    /\ Cardinality(MovementsOfSale(p, SaleIdOf(r)))
                           = Cardinality(LinesOfProduct(cart, p))
                    /\ \A k \in MovementsOfSale(p, SaleIdOf(r)) :
                           getInventoryMovements(p)[k].type = "out"
    /\ \A p \in DOMAIN products :
          products[p].stock = InitProducts[p].stock - WrittenQty(ReqIds, p)

\* a sale of a cart of two lines of different products has been answered 201
C13_Witness ==
    \E r \in Succeeded :
        /\ Len(reqs[r].body.items) = 2
        /\ reqs[r].body.items[1].productId # reqs[r].body.items[2].productId
        /\ Len(getSaleItems(SaleIdOf(r))) = 2

(***************************************************************************)
(* C14.  Sign of a sale's movement.  Every movement of type "out" recorded *)
(* for a product carries the negative of the quantity of a cart line of    *)
(* that product in the sale it names.                                      *)
(***************************************************************************)
C14_MovementSigned ==
    \A p \in DOMAIN inventoryMovements :
        \A k \in 1..Len(inventoryMovements[p]) :
            LET m == inventoryMovements[p][k]
            IN  m.type = "out" =>
                    \E r \in ReqIds :
                        /\ SaleIdOf(r) = m.reason
                        /\ \E l \in LinesOfProduct(reqs[r].body.items, p) :
                              m.quantity = 0 - reqs[r].body.items[l].quantity

(***************************************************************************)
(* C15.  Stock changes are recorded.  Every step that changes the stock of *)
(* a product is a step of a request that appends a movement for that       *)
(* product as its next write.                                              *)
(***************************************************************************)
\* request q is about to append a movement for product p
AboutToRecord(q, p) ==
    \/ q.pc = "move" /\ q.validatedItems[q.i].productId = p
    \/ q.pc = "adjustMove" /\ q.id = p

C15_StockChangesRecorded ==
    [][\A p \in (DOMAIN products) \cap (DOMAIN products') :
          products'[p].stock # products[p].stock =>
              \E r \in ReqIds : reqs'[r] # reqs[r] /\ AboutToRecord(reqs'[r], p)]_vars

(***************************************************************************)
(* C16.  The two effects of an adjustment are seen together.  Whenever a   *)
(* request reads a product or the movements of a product, the product's    *)
(* stock is its stock at the start plus the quantities of the movements    *)
(* recorded for it: no read sees a stock whose movement is not recorded.   *)
(***************************************************************************)
\* request q reads the product storage or the movement log in its next step
Reads(q) == q.pc \in {"getProduct", "getMovements"}

C16_AdjustmentSeenWhole ==
    \A r \in ReqIds :
        (Reads(reqs[r]) /\ reqs[r].id \in DOMAIN products) =>
            products[reqs[r].id].stock
                = InitProducts[reqs[r].id].stock
                  + MovementSum(getInventoryMovements(reqs[r].id))

(***************************************************************************)
(* C17.  Adjustment of a product that does not exist.  An answered         *)
(* inventory adjustment that passed the middleware and names a product     *)
(* that is not in storage is answered with an error, and no movement is    *)
(* recorded for that product.                                              *)
(***************************************************************************)
C17_AdjustUnknownProduct ==
    \A r \in ReqIds :
        (/\ reqs[r].kind = "POST /api/inventory/adjustment"
         /\ reqs[r].pc = "done"
         /\ RunMiddleware(ManageChain, reqs[r].token, "") = NoResp
         /\ reqs[r].id \notin DOMAIN products)
        => /\ reqs[r].resp.status >= 400
           /\ getInventoryMovements(reqs[r].id) = <<>>

(***************************************************************************)
(* C18.  Authentication first.  A request that arrives without a token or  *)
(* with a token that is not in the session set is answered 401             *)
(* "Authentication required" in the step it arrives in, whatever its store *)
(* header and whatever the route's roles; the step changes nothing in      *)
(* storage and the answer holds no entity.                                 *)
(***************************************************************************)
\* nothing of storage has been read into request q
NothingRead(q) ==
    /\ q.jsonProducts = <<>>
    /\ q.jsonItems = <<>>
    /\ q.jsonMovements = <<>>
    /\ ~q.found
    /\ q.userStore = ""
    /\ q.validatedItems = <<>>

C18_AuthenticationFirst ==
    [][\A r \in ReqIds :
          (/\ reqs[r].pc = "idle"
           /\ reqs'[r].pc # "idle"
           /\ reqs'[r].token \notin DOMAIN sessions)
          => /\ reqs'[r].pc = "done"
             /\ reqs'[r].resp = Resp(401, "Authentication required")
             /\ NothingRead(reqs'[r])
             /\ UNCHANGED store]_vars

\* requests without a token and with an unknown token were refused, one of
\* them on a route with a role set and one on a route with a store header
C18_Witness ==
    \E r1, r2 \in ReqIds :
        /\ reqs[r1].token = ""
        /\ reqs[r1].kind = "DELETE /api/products/:id"
        /\ reqs[r1].resp.status = 401
        /\ reqs[r2].token = "tBad"
        /\ reqs[r2].kind = "POST /api/sales"
        /\ reqs[r2].storeId = ""
        /\ reqs[r2].resp.status = 401

(***************************************************************************)
(* C19.  Role check.  On a route registered with requireRole, a request    *)
(* of a session whose role is not in the route's set is answered 403       *)
(* "Insufficient permissions" in the step it arrives in; the step changes  *)
(* nothing in storage.                                                     *)
(***************************************************************************)
RoleKinds ==
    {"POST /api/products", "PUT /api/products/:id", "DELETE /api/products/:id",
     "DELETE /api/customers/:id", "POST /api/inventory/adjustment"}

GoodCredentials(q) ==
    /\ q.username \in DOMAIN users
    /\ users[q.username].password = q.password
    /\ users[q.username].isActive

C20_Login ==
    [][\A r \in ReqIds :
          (reqs[r].pc = "login" /\ reqs'[r].pc = "done") =>
              IF GoodCredentials(reqs[r])
              THEN /\ reqs'[r].resp.status = 200
                   /\ reqs'[r].jsonToken \notin DOMAIN sessions
                   /\ DOMAIN sessions' = (DOMAIN sessions) \cup {reqs'[r].jsonToken}
                   /\ \A t \in DOMAIN sessions : sessions'[t] = sessions[t]
                   /\ sessions'[reqs'[r].jsonToken] =
                          [userId |-> reqs[r].username,
                           username |-> users[reqs[r].username].username,
                           role |-> users[reqs[r].username].role]
              ELSE /\ reqs'[r].resp.status = 401
                   /\ reqs'[r].jsonToken = ""
                   /\ sessions' = sessions]_vars

\* an owner has logged in and holds a session; the login of the disabled
\* account with its password was refused
C20_Witness ==
    \E r1, r2 \in ReqIds :
        /\ reqs[r1].kind = "POST /api/auth/login"
        /\ reqs[r1].resp.status = 200
        /\ reqs[r1].jsonToken \in DOMAIN sessions
        /\ sessions[reqs[r1].jsonToken].userId = "ownerA"
        /\ reqs[r2].kind = "POST /api/auth/login"
        /\ reqs[r2].username = "offA"
        /\ reqs[r2].password = "pw"
        /\ reqs[r2].resp = Resp(401, "Account is disabled")

(***************************************************************************)
(* C21.  Session lifecycle.  A request that arrives with a token that is   *)
(* in the session set is not refused by requireAuth.  A token leaves the   *)
(* session set only in the step of a logout that bears it.  Once a logout  *)
(* with a token has been answered 200 the token is never again in the      *)
(* session set, and every request that arrives with it after that is       *)
(* answered 401 "Authentication required" in the step it arrives in,       *)
(* which changes nothing in storage.                                       *)
(***************************************************************************)
\* request q is an answered logout
LoggedOut(q) == q.kind = "POST /api/auth/logout" /\ q.resp.status = 200

\* a logout with token t has been answered
Destroyed(t) == \E q \in ReqIds : LoggedOut(reqs[q]) /\ reqs[q].token = t

\* request r arrives in this step, on a route other than login
ArrivesWithToken(r) ==
    /\ reqs[r].pc = "idle"
    /\ reqs'[r].pc # "idle"
    /\ reqs'[r].kind # "POST /api/auth/login"

C21_SessionLifecycle ==
    /\ [](\A t \in DOMAIN sessions : ~Destroyed(t))
    /\ [][/\ \A r \in ReqIds :
               ArrivesWithToken(r) =>
                   /\ reqs'[r].token \in DOMAIN sessions =>
                          reqs'[r].resp # Resp(401, "Authentication required")
                   /\ Destroyed(reqs'[r].token) =>
                          /\ reqs'[r].pc = "done"
                          /\ reqs'[r].resp = Resp(401, "Authentication required")
                          /\ UNCHANGED store
           /\ \A t \in (DOMAIN sessions) \ (DOMAIN sessions') :
               \E q \in ReqIds :
                   /\ ArrivesWithToken(q)
                   /\ LoggedOut(reqs'[q])
                   /\ reqs'[q].token = t]_vars

\* a logout with the token of a session was answered, and a request that
\* arrived with that token after it was refused
C21_Witness ==
    \E r1, r2 \in ReqIds :
        /\ r1 < r2
        /\ LoggedOut(reqs[r1])
        /\ reqs[r2].token = reqs[r1].token
        /\ reqs[r2].kind = "GET /api/sales/:id/items"
        /\ reqs[r2].resp = Resp(401, "Authentication required")

(***************************************************************************)
(* C22.  A committed sale is immutable.  Once a sale has been answered 201 *)
(* no step of any request (another sale, a product update, a product       *)
(* deletion, an inventory adjustment) changes its Sale record or the list  *)
(* of its SaleItems: no item is changed, added or removed.                 *)
(***************************************************************************)
\* the sale requests answered 201
Committed == {r \in Succeeded : reqs[r].kind = "POST /api/sales"}

C22_SaleImmutable ==
    [][\A r \in Committed :
          /\ SaleIdOf(r) \in DOMAIN sales'
          /\ sales'[SaleIdOf(r)] = sales[SaleIdOf(r)]
          /\ SaleIdOf(r) \in DOMAIN saleItems'
          /\ saleItems'[SaleIdOf(r)] = saleItems[SaleIdOf(r)]]_vars

\* a sale of product p1 was answered 201 and a later request changed the
\* price of p1 or deleted it: the sale's item holds the price it was sold at
C22_Witness ==
    \E r1 \in Committed, r2 \in ReqIds :
        /\ r1 < r2
        /\ reqs[r2].kind \in {"PUT /api/products/:id", "DELETE /api/products/:id"}
        /\ reqs[r2].resp.status = 200
        /\ reqs[r2].id = "p1"
        /\ getSaleItems(SaleIdOf(r1))[1].productId = "p1"
        /\ getSaleItems(SaleIdOf(r1))[1].unitPrice = InitProducts["p1"].sellingPrice
        /\ \/ "p1" \notin DOMAIN products
           \/ products["p1"].sellingPrice # InitProducts["p1"].sellingPrice

(***************************************************************************)
(* C23.  The movement log is append-only.  Every step of every request, a  *)
(* failed sale's rollback included, leaves the movement list of every      *)
(* product a list that begins with the list it was: movements are only     *)
(* appended.                                                               *)
(***************************************************************************)
C23_MovementsAppendOnly ==
    [][\A p \in DOMAIN inventoryMovements :
          /\ p \in DOMAIN inventoryMovements'
          /\ Len(inventoryMovements'[p]) >= Len(inventoryMovements[p])
          /\ SubSeq(inventoryMovements'[p], 1, Len(inventoryMovements[p]))
                 = inventoryMovements[p]]_vars

\* a sale attempt was rolled back after it had recorded a movement, another
\* movement was appended for the same product, and the former is in the log
C23_Witness ==
    \E r \in Failed, p \in DOMAIN inventoryMovements :
        /\ reqs[r].resp.message = "Unknown error during sales processing"
        /\ Len(inventoryMovements[p]) >= 2
        /\ inventoryMovements[p][1].reason = SaleIdOf(r)
        /\ inventoryMovements[p][1].type = "out"

(***************************************************************************)
(* C24.  Invalid input.  A sale request that passed the middleware and has *)
(* no cart, a payment method outside {cash, card, digital} or a line with  *)
(* no productId or a quantity <= 0 never reaches processSaleAtomic, leaves *)
(* no Sale and no SaleItem, and is answered 400 with an error of the kind  *)
(* InvalidInput.                                                           *)
(***************************************************************************)
\* the kind of error a message of the sale handler tells
ErrorKind(message) ==
    CASE message \in {"Items are required", "Valid payment method is required",
                      "Invalid item data", "Product is not active"} -> "InvalidInput"
      [] message = "Product not found" -> "ProductNotFound"
      [] message = "Product does not belong to this store" -> "TenantMismatch"
      [] message = "Insufficient stock" -> "InsufficientStock"
      [] OTHER -> ""

Malformed(body) ==
    \/ Len(body.items) = 0
    \/ body.paymentMethod \notin PaymentMethods
    \/ \E k \in 1..Len(body.items) :
          body.items[k].productId = "" \/ body.items[k].quantity <= 0

\* request q is a sale request that the middleware lets through
PastGate(q) ==
    /\ q.kind = "POST /api/sales"
    /\ RunMiddleware(SalesChain, q.token, q.storeId) = NoResp

C24_InvalidInput ==
    \A r \in ReqIds :
        (PastGate(reqs[r]) /\ Malformed(reqs[r].body)) =>
            /\ reqs[r].pc \notin {"psa", "item", "stock", "move"}
            /\ SaleIdOf(r) \notin DOMAIN sales
            /\ SaleIdOf(r) \notin DOMAIN saleItems
            /\ reqs[r].pc = "done" =>
                  /\ reqs[r].resp.status = 400
                  /\ ErrorKind(reqs[r].resp.message) = "InvalidInput"

(***************************************************************************)
(* C25.  Order of classification.  The lines of a cart are checked in cart *)
(* order, each against the products of the moment it is checked: a line of *)
(* a missing product is answered ProductNotFound (400); else a line of a   *)
(* product of another store than the request's is answered TenantMismatch  *)
(* (403), for an administrator too; else a line of an inactive product is  *)
(* answered InvalidInput (400); else a line that asks for more than the    *)
(* stock is answered InsufficientStock (400); else the line is accepted    *)
(* and the next line is checked.  The answer is that of the first line     *)
(* that fails, and the step changes nothing in storage.  A request whose   *)
(* lines were all accepted is refused by processSaleAtomic only for its    *)
(* first line whose product is missing or short of stock.                  *)
(***************************************************************************)
Accepted == [status |-> 0, kind |-> ""]

\* what the claim says of a line of a request for store storeId
Classify(item, storeId) ==
    IF item.productId \notin DOMAIN products
        THEN [status |-> 400, kind |-> "ProductNotFound"]
    ELSE IF products[item.productId].storeId # storeId
        THEN [status |-> 403, kind |-> "TenantMismatch"]
    ELSE IF ~products[item.productId].isActive
        THEN [status |-> 400, kind |-> "InvalidInput"]
    ELSE IF products[item.productId].stock < item.quantity
        THEN [status |-> 400, kind |-> "InsufficientStock"]
    ELSE Accepted

\* the answer q has the status and the kind of error c
Answered(q, c) ==
    /\ q.pc = "done"
    /\ q.resp.status = c.status
    /\ ErrorKind(q.resp.message) = c.kind

C25_ClassificationOrder ==
    [][\A r \in ReqIds :
          /\ (reqs[r].pc = "line" /\ reqs'[r] # reqs[r]) =>
                LET k == reqs[r].i
                    c == Classify(reqs[r].body.items[k], reqs[r].storeId)
                IN  /\ k = Len(reqs[r].validatedItems) + 1
                    /\ IF c = Accepted
                       THEN /\ reqs'[r].pc # "done"
                            /\ Len(reqs'[r].validatedItems) = k
                            /\ reqs'[r].validatedItems[k].productId
                                   = reqs[r].body.items[k].productId
                       ELSE Answered(reqs'[r], c)
                    /\ UNCHANGED store
          /\ (reqs[r].pc = "psa" /\ reqs'[r].pc = "done") =>
                \E k \in 1..Len(reqs[r].body.items) :
                    LET c == Classify(reqs[r].body.items[k], reqs[r].storeId)
                    IN  /\ c.kind \in {"ProductNotFound", "InsufficientStock"}
                        /\ Answered(reqs'[r], c)
                        /\ \A l \in 1..(k - 1) :
                              Classify(reqs[r].body.items[l], reqs[r].storeId).kind
                                  \notin {"ProductNotFound", "InsufficientStock"}
                        /\ UNCHANGED store]_vars

\* an administrator asking for store B a product of store A that is short
\* of stock was answered 403, and a request whose first line was accepted
\* was answered for its second line, of an inactive product short of stock
C25_Witness ==
    \E r1, r2 \in ReqIds :
        /\ reqs[r1].user.role = "administrator"
        /\ reqs[r1].storeId = "B"
        /\ reqs[r1].body.items[1] = Line("p1", 3000, 2000)
        /\ reqs[r1].resp = Resp(403, "Product does not belong to this store")
        /\ Len(reqs[r2].validatedItems) = 1
        /\ Len(reqs[r2].body.items) = 2
        /\ reqs[r2].body.items[2] = Line("p4", 3000, 2000)
        /\ reqs[r2].resp = Resp(400, "Product is not active")

(***************************************************************************)
(* C26.  Low stock.  The step that answers a read of the low-stock list    *)
(* answers exactly the products whose stock, in the state the step reads,  *)
(* is less than or equal to their minStockLevel, each as it is in storage: *)
(* a sale or an adjustment that took a stock across its level is seen by   *)
(* the next read.                                                          *)
(***************************************************************************)
C26_LowStock ==
    [][\A r \in ReqIds :
          (reqs[r].pc = "getLowStock" /\ reqs'[r].pc = "done") =>
              /\ \A p \in ProductIds :
                    p \in DOMAIN reqs'[r].jsonProducts <=>
                        /\ p \in DOMAIN products
                        /\ products[p].stock <= products[p].minStockLevel
              /\ \A p \in DOMAIN reqs'[r].jsonProducts :
                    reqs'[r].jsonProducts[p] = products[p]]_vars

\* a sale took the stock of p1 from above its level to the level, and a
\* read of the list answered p1 with that stock
C26_Witness ==
    \E r1 \in Succeeded, r2 \in ReqIds :
        /\ InitProducts["p1"].stock > InitProducts["p1"].minStockLevel
        /\ reqs[r1].kind = "POST /api/sales"
        /\ reqs[r1].body.items[1].productId = "p1"
        /\ reqs[r2].kind = "GET /api/products/low-stock"
        /\ "p1" \in DOMAIN reqs[r2].jsonProducts
        /\ reqs[r2].jsonProducts["p1"].stock = InitProducts["p1"].minStockLevel

(***************************************************************************)
(* C27.  Rollback keeps the writes of other requests.  The step that rolls *)
(* a failed sale attempt back takes back the stock writes of that attempt  *)
(* and nothing else: no product is brought back or removed, and every      *)
(* product is as it was before the step but for the quantities the attempt *)
(* had taken from its stock.                                               *)
(***************************************************************************)
\* the quantity of product p in the stock writes request r has made
OwnWrites(r, p) == QtySum(SubSeq(reqs[r].validatedItems, 1, WrittenLines(r)), p)

C27_RollbackKeepsOtherWrites ==
    [][\A r \in ReqIds :
          (/\ reqs[r].pc \in CommitPcs
           /\ reqs'[r].pc = "done"
           /\ reqs'[r].resp.status # 201)
          => /\ DOMAIN products' = DOMAIN products
             /\ \A p \in DOMAIN products :
                   products'[p] = [products[p] EXCEPT !.stock = @ + OwnWrites(r, p)]]_vars

(***************************************************************************)
(* C28.  Store and user of a sale.  Every Sale has the storeId the         *)
(* middleware validated for its request and the userId of the request's    *)
(* session, whatever the body names; and in the step that commits a        *)
(* SaleItem of a sale, the item's product is in storage with the storeId   *)
(* of the sale.                                                            *)
(***************************************************************************)
C28_SaleStoreAndUser ==
    /\ [](\A r \in ReqIds :
            SaleIdOf(r) \in DOMAIN sales =>
                /\ sales[SaleIdOf(r)].storeId = reqs[r].storeId
                /\ sales[SaleIdOf(r)].userId = reqs[r].user.userId
                /\ RunMiddleware(SalesChain, reqs[r].token, reqs[r].storeId) = NoResp)
    /\ [][\A r \in ReqIds :
            (reqs[r].pc = "item" /\ reqs'[r].pc = "stock") =>
                LET item == saleItems'[SaleIdOf(r)][Len(saleItems'[SaleIdOf(r)])]
                IN  /\ item.productId \in DOMAIN products
                    /\ products[item.productId].storeId = sales[SaleIdOf(r)].storeId]_vars

(***************************************************************************)
(* C29.  One outcome.  Every sale request that has arrived is answered;    *)
(* once answered, its answer never changes.  It is answered 201 only by    *)
(* the step that makes the last write of the sale, when the sale has its   *)
(* Sale record, an item for every cart line and a movement for every line; *)
(* every other answer is an error with a message.  A throw in the commit   *)
(* phase is answered with the error value processSaleAtomic returns.       *)
(***************************************************************************)
C29_OneOutcome ==
    /\ \A r \in ReqIds : (reqs[r].pc # "idle") ~> (reqs[r].pc = "done")
    /\ [][\A r \in ReqIds :
            /\ reqs[r].pc = "done" => reqs'[r] = reqs[r]
            /\ (reqs[r].pc # "done" /\ reqs'[r].pc = "done") =>
                  IF reqs'[r].resp.status = 201
                  THEN /\ reqs[r].pc = "move"
                       /\ reqs[r].i = Len(reqs[r].body.items)
                       /\ SaleIdOf(r) \in DOMAIN sales'
                       /\ Len(saleItems'[SaleIdOf(r)]) = Len(reqs[r].body.items)
                       /\ \A p \in ProductIds :
                             LET log == IF p \in DOMAIN inventoryMovements'
                                        THEN inventoryMovements'[p] ELSE <<>>
                             IN  Cardinality({k \in 1..Len(log) :
                                                 log[k].reason = SaleIdOf(r)})
                                     = Cardinality(LinesOfProduct(reqs[r].body.items, p))
                  ELSE /\ reqs'[r].resp.status \in {400, 401, 403}
                       /\ reqs'[r].resp.message # ""
                       /\ reqs[r].pc \in CommitPcs =>
                             reqs'[r].resp
                                 = Resp(400, "Unknown error during sales processing")]_vars

\* one sale was answered 201 and another, whose commit phase threw, 400
C29_Witness ==
    \E r1, r2 \in ReqIds :
        /\ reqs[r1].pc = "done"
        /\ reqs[r1].resp.status = 201
        /\ reqs[r2].pc = "done"
        /\ reqs[r2].resp = Resp(400, "Unknown error during sales processing")
        /\ SaleIdOf(r2) \in DOMAIN sales

(***************************************************************************)
(* C30.  Stock is checked for the cart as a whole.  processSaleAtomic      *)
(* accepts the lines of a cart, and goes on to write the sale, only if for *)
(* every product the quantities of the cart's lines of that product sum to *)
(* at most the product's stock; a cart that asks for more is answered      *)
(* InsufficientStock, and the step changes nothing in storage.             *)
(***************************************************************************)
\* the lines of request q ask for more of some product than is in stock
AsksTooMuch(q) ==
    \E p \in DOMAIN products : QtySum(q.validatedItems, p) > products[p].stock

C30_CartWideStockCheck ==
    [][\A r \in ReqIds :
          (reqs[r].pc = "psa" /\ reqs'[r] # reqs[r]) =>
              IF AsksTooMuch(reqs[r])
              THEN /\ reqs'[r].pc = "done"
                   /\ reqs'[r].resp = Resp(400, "Insufficient stock")
                   /\ UNCHANGED store
              ELSE reqs'[r].pc = "item"]_vars

(***************************************************************************)
(* Inventory adjustments by an owner of store A that take more than the    *)
(* stock of the product, as much as its stock, and less.                   *)
(***************************************************************************)
Deductions == {0 - 3000, 0 - 2000, 0 - 1000, 1000}

NextDeduct ==
    \E r \in ReqIds :
        \/ InventoryAdjustment(r, {"tOwnerA"}, {"p1", "p2"}, Deductions)
        \/ AdjustStock(r)
        \/ AdjustMovement(r)

SpecDeduct == Init /\ [][NextDeduct]_vars

(***************************************************************************)
(* C31.  A manual adjustment never takes the stock below zero.  When the   *)
(* handler of POST /api/inventory/adjustment comes to write the stock of a *)
(* product and the product's stock plus the quantity of the adjustment is  *)
(* negative, the request is answered with an error in that step and the    *)
(* step leaves the stock and the movement log as they are; so the stock of *)
(* a product is never negative after a step of an adjustment.              *)
(***************************************************************************)
\* request q is about to write a stock that would be negative
TakesTooMuch(q) ==
    /\ q.pc = "adjustStock"
    /\ q.id \in DOMAIN products
    /\ products[q.id].stock + q.quantity < 0

C31_AdjustmentNeverNegative ==
    [][\A r \in ReqIds :
          (TakesTooMuch(reqs[r]) /\ reqs'[r] # reqs[r]) =>
              /\ reqs'[r].pc = "done"
              /\ reqs'[r].resp.status >= 400
              /\ products' = products
              /\ inventoryMovements' = inventoryMovements]_vars

(***************************************************************************)
(* C32.  A sale attempt that failed in its commit phase leaves no          *)
(* inventory movement behind.  The movements of an attempt carry the id of *)
(* its sale, an id no other attempt has, so the log of a product equals    *)
(* its log before the attempt when it holds no movement of that id: for    *)
(* every sale request answered with the error of the rollback and every    *)
(* product of its cart, the product's log holds no movement of that sale.  *)
(***************************************************************************)
C32_RollbackLeavesNoMovement ==
    \A r \in Failed :
        reqs[r].resp.message = "Unknown error during sales processing"
            => \A p \in CartProducts(r) : MovementsOfSale(p, SaleIdOf(r)) = {}

(***************************************************************************)
(* Changes of a user's role, deactivations and deletions of users by an    *)
(* administrator, together with logins, logouts and requests of the users  *)
(* changed, on tokens given before and after the change.                   *)
(***************************************************************************)
UserPatches ==
    {[NoData EXCEPT !.fields = {"role"}, !.role = "cashier"],
     [NoData EXCEPT !.fields = {"role"}, !.role = "owner"],
     [NoData EXCEPT !.fields = {"isActive"}, !.isActive = FALSE]}

StaleTokens == {"tOwnerA", "tCashA"} \cup {NewToken(q) : q \in ReqIds}

NextStale ==
    \E r \in ReqIds :
        \/ Login(r, {"ownerA"}, {"pw"})
        \/ LoginSession(r)
        \/ Logout(r, StaleTokens)
        \/ UsersPut(r, {"tAdmin"}, {"ownerA", "cashA"}, UserPatches)
        \/ UsersDelete(r, {"tAdmin"}, {"ownerA"})
        \/ ProductsPut(r, StaleTokens, {"p1"}, ProductPatches)
        \/ ProductsList(r, StaleTokens, {"A"})
        \/ ProductsGetAll(r)

SpecStale == Init /\ [][NextStale]_vars

C34_LogoutRemovesOneSession ==
    [][\A r \in ReqIds :
          /\ (/\ reqs[r].pc = "idle"
              /\ reqs'[r].kind = "POST /api/auth/logout"
              /\ reqs'[r].resp.status = 200)
             => /\ reqs'[r].token \in DOMAIN sessions
                /\ DOMAIN sessions' = DOMAIN sessions \ {reqs'[r].token}
                /\ \A t \in DOMAIN sessions' : sessions'[t] = sessions[t]
          /\ (reqs[r].pc = "login" /\ reqs'[r].pc = "done")
             => \A t \in DOMAIN sessions :
                    t \in DOMAIN sessions' /\ sessions'[t] = sessions[t]
          /\ (/\ reqs[r].pc = "idle"
              /\ reqs'[r].pc # "idle"
              /\ reqs'[r].token \in DOMAIN sessions)
             => reqs'[r].resp # Resp(401, "Authentication required")]_vars

\* an owner who holds two sessions logged one of them out: the other is in
\* the session set, and so are the sessions of the other users
C34_Witness ==
    \E q, r \in ReqIds :
        /\ reqs[q].kind = "POST /api/auth/login"
        /\ reqs[q].resp.status = 200
        /\ reqs[r].kind = "POST /api/auth/logout"
        /\ reqs[r].token = "tOwnerA"
        /\ reqs[r].resp.status = 200
        /\ "tOwnerA" \notin DOMAIN sessions
        /\ reqs[q].jsonToken \in DOMAIN sessions
        /\ sessions[reqs[q].jsonToken].userId = "ownerA"
        /\ "tCashA" \in DOMAIN sessions

(***************************************************************************)
(* Updates of customers by an owner of store A and by an administrator,    *)
(* with bodies that name a name, a store, or both.                         *)
(***************************************************************************)
CustomerMoves ==
    {[NoData EXCEPT !.fields = {"name"}, !.name = "Cy"]}
    \cup {[NoData EXCEPT !.fields = {"storeId"}, !.storeId = s] : s \in StoreIds}
    \cup {[NoData EXCEPT !.fields = {"name", "storeId"}, !.name = "Cy", !.storeId = "B"]}

NextMove ==
    \E r \in ReqIds :
        \/ CustomersPut(r, {"tOwnerA", "tAdmin"}, StoreIds, {"c1", "c2"}, CustomerMoves)
        \/ CustomersPutGet(r)
        \/ CustomersPutUpdate(r)

SpecMove == Init /\ [][NextMove]_vars

(***************************************************************************)
(* C35.  Updating a customer never changes the store it belongs to.  The   *)
(* step of PUT /api/customers/:id that answers 200 leaves the storeId of   *)
(* the customer it names as it was before the step, whatever fields the    *)
(* body of the request has.  (PUT /api/suppliers/:id is the same handler   *)
(* over the suppliers.)                                                    *)
(***************************************************************************)
C35_UpdateKeepsStore ==
    [][\A r \in ReqIds :
          (/\ reqs[r].pc = "checkCustomer"
           /\ reqs'[r].pc = "done"
           /\ reqs'[r].resp.status = 200)
          => /\ reqs[r].id \in DOMAIN customers
             /\ reqs[r].id \in DOMAIN customers'
             /\ customers'[reqs[r].id].storeId = customers[reqs[r].id].storeId]_vars

(***************************************************************************)
(* Creations of customers, suppliers, categories, cash-flow entries and    *)
(* sales by an owner of store A and by an administrator, for either store, *)
(* with bodies that name a store of their own.                             *)
(***************************************************************************)
CreateDatas ==
    {[NoData EXCEPT !.fields = {"name", "storeId"}, !.name = "Cy", !.storeId = s] :
        s \in StoreIds}

CreateTokens == {"tOwnerA", "tAdmin"}

CreateBodies ==
    [n \in 0..MaxLines |->
        IF n = 0 THEN {}
        ELSE {[SaleBody(<<Line(p, 1000, 2000)>>) EXCEPT !.storeId = "B", !.userId = "ownerB"] :
                 p \in {"p1", "p3"}}]

NextCreate ==
    \E r \in ReqIds :
        \/ CustomersPost(r, CreateTokens, StoreIds, CreateDatas)
        \/ CustomersCreate(r)
        \/ SuppliersPost(r, CreateTokens, StoreIds, CreateDatas)
        \/ SuppliersCreate(r)
        \/ CategoriesPost(r, CreateTokens, StoreIds, CreateDatas)
        \/ CategoriesCreate(r)
        \/ CashFlowEntriesPost(r, CreateTokens, StoreIds, CreateDatas)
        \/ CashFlowEntriesCreate(r)
        \/ SalesPost(r, CreateTokens, StoreIds, CreateBodies)
        \/ SalesLine(r)
        \/ ProcessSaleAtomic(r)
        \/ CommitSaleItem(r)
        \/ CommitStock(r)
        \/ CommitMovement(r)

SpecCreate == Init /\ [][NextCreate]_vars

(***************************************************************************)
(* C36.  The store of a created record.  A request reaches the handler of  *)
(* POST /api/customers, /api/suppliers, /api/categories, /api/cashflow/    *)
(* entries or /api/sales only with a store that passes validateStoreAccess *)
(* for its session; the step that creates the record gives it the storeId  *)
(* of the request, whatever storeId the body names, and no other record is *)
(* added or changed by that step.                                          *)
(***************************************************************************)
CreateKinds ==
    {"POST /api/customers", "POST /api/suppliers", "POST /api/categories",
     "POST /api/cashflow/entries", "POST /api/sales"}

C36_CreatedRecordStore ==
    [][/\ \A r \in ReqIds :
             (/\ reqs[r].pc = "idle"
              /\ reqs'[r].kind \in CreateKinds
              /\ reqs'[r].resp = NoResp)
             => validateStoreAccess(SessionOf(reqs'[r].token), reqs'[r].storeId) = NoResp
       /\ \A id \in DOMAIN customers' \ DOMAIN customers :
             \E r \in ReqIds : /\ reqs[r].pc = "createCustomer"
                               /\ id = NewId(r)
                               /\ customers'[id].storeId = reqs[r].storeId
       /\ \A id \in DOMAIN suppliers' \ DOMAIN suppliers :
             \E r \in ReqIds : /\ reqs[r].pc = "createSupplier"
                               /\ id = NewId(r)
                               /\ suppliers'[id].storeId = reqs[r].storeId
       /\ \A id \in DOMAIN categories' \ DOMAIN categories :
             \E r \in ReqIds : /\ reqs[r].pc = "createCategory"
                               /\ id = NewId(r)
                               /\ categories'[id].storeId = reqs[r].storeId
       /\ cashFlowEntries' # cashFlowEntries =>
             \E r \in ReqIds :
                 /\ reqs[r].pc = "createCashFlowEntry"
                 /\ Len(cashFlowEntries') = Len(cashFlowEntries) + 1
                 /\ SubSeq(cashFlowEntries', 1, Len(cashFlowEntries)) = cashFlowEntries
                 /\ cashFlowEntries'[Len(cashFlowEntries')].id = NewId(r)
                 /\ cashFlowEntries'[Len(cashFlowEntries')].storeId = reqs[r].storeId
       /\ \A id \in DOMAIN sales' \ DOMAIN sales :
             \E r \in ReqIds : /\ reqs[r].pc = "psa"
                               /\ id = SaleIdOf(r)
                               /\ sales'[id].storeId = reqs[r].storeId]_vars

\* an owner of store A whose body named store B created a supplier of store
\* A, and an administrator whose body named store A created a cash-flow
\* entry of store B
C36_Witness ==
    \E q, r \in ReqIds :
        /\ reqs[q].kind = "POST /api/suppliers"
        /\ reqs[q].token = "tOwnerA"
        /\ reqs[q].data.storeId = "B"
        /\ reqs[q].resp.status = 201
        /\ NewId(q) \in DOMAIN suppliers
        /\ suppliers[NewId(q)].storeId = "A"
        /\ reqs[r].kind = "POST /api/cashflow/entries"
        /\ reqs[r].token = "tAdmin"
        /\ reqs[r].data.storeId = "A"
        /\ reqs[r].resp.status = 201
        /\ Len(cashFlowEntries) = 1
        /\ cashFlowEntries[1].storeId = "B"

(***************************************************************************)
(* C37.  The receipt adds up.  For every sale answered 201, with the       *)
(* amounts as the answer and the records give them, in two decimals:       *)
(* calculatedTotal = calculatedSubtotal + calculatedTax, calculatedSubtotal *)
(* is the sum of the totals of the sale's SaleItems, and the stored        *)
(* sale.total and sale.tax are calculatedTotal and calculatedTax.          *)
(***************************************************************************)
\* calculatedSubtotal: subtotal.toFixed(2), calculatedTax: tax.toFixed(2),
\* calculatedTotal: total.toFixed(2), of the answer of request q
calculatedSubtotal(q) == toFixed2(q.subtotal)

calculatedTax(q) == TaxToFixed2(q.subtotal)

calculatedTotal(q) == TotalToFixed2(q.subtotal)

C37_ReceiptAddsUp ==
    \A r \in Committed :
        /\ calculatedTotal(reqs[r]) = calculatedSubtotal(reqs[r]) + calculatedTax(reqs[r])
        /\ calculatedSubtotal(reqs[r]) = SumTotals(getSaleItems(SaleIdOf(r)))
        /\ sales[SaleIdOf(r)].total = calculatedTotal(reqs[r])
        /\ sales[SaleIdOf(r)].tax = calculatedTax(reqs[r])

(***************************************************************************)
(* The callbacks of the cart in any order, on two products, while an owner *)
(* changes the price of one of them.                                       *)
(***************************************************************************)
NextCart ==
    \/ AddToCart({"p1", "p2"})
    \/ UpdateQuantity(0 - 1 .. MaxQty)
    \/ RemoveItem
    \/ ClearCart
    \/ \E r \in ReqIds : ProductsPut(r, {"tOwnerA"}, {"p1"}, ProductPatches)

SpecCart == Init /\ [][NextCart]_vars

(***************************************************************************)
(* C38.  The cart of the client.  In every state the cart has at most one  *)
(* line for a product, and every line has a quantity of at least 1 and a   *)
(* total of quantity x price.  An addToCart of a product that has a line   *)
(* adds 1 to the quantity of that line and leaves the other lines and the  *)
(* number of lines as they are; an addToCart of a product that has none    *)
(* adds a line of quantity 1 at the product's price.  An updateQuantity    *)
(* with a quantity of 0 or less leaves no line of the item it names and    *)
(* the other lines as they are.                                            *)
(***************************************************************************)
\* the lines of the cart other than those of product p, in their order
OtherProducts(items, p) ==
    LET Other(item) == item.productId # p IN SelectSeq(items, Other)

\* the lines of the cart other than those of item id, in their order
OtherItems(items, id) ==
    LET Other(item) == item.id # id IN SelectSeq(items, Other)

C38_CartInvariant ==
    /\ [](/\ \A k, l \in 1..Len(cartItems) :
                cartItems[k].productId = cartItems[l].productId => k = l
          /\ \A k \in 1..Len(cartItems) :
                /\ cartItems[k].quantity >= 1
                /\ cartItems[k].total = cartItems[k].quantity * cartItems[k].price)
    /\ [][(cartItems' # cartItems \/ click' # click) =>
            /\ click'.handler = "addToCart" =>
                  LET p == click'.productId
                  IN  /\ QuantityOf(cartItems', p) = QuantityOf(cartItems, p) + 1
                      /\ OtherProducts(cartItems', p) = OtherProducts(cartItems, p)
                      /\ Len(cartItems') =
                             IF QuantityOf(cartItems, p) > 0 THEN Len(cartItems)
                             ELSE Len(cartItems) + 1
                      /\ QuantityOf(cartItems, p) = 0 =>
                             cartItems'[Len(cartItems')].price = products[p].sellingPrice
            /\ (click'.handler = "updateQuantity" /\ click'.quantity <= 0) =>
                  /\ \A k \in 1..Len(cartItems') : cartItems'[k].id # click'.itemId
                  /\ cartItems' = OtherItems(cartItems, click'.itemId)]_vars

\* a cart of two lines: the last callback was an addToCart of a product that
\* had a line, whose quantity is now MaxQty, and the other line has quantity 2
C38_Witness ==
    /\ Len(cartItems) = 2
    /\ click.handler = "addToCart"
    /\ QuantityOf(cartItems, click.productId) = MaxQty
    /\ \E k \in 1..2 : cartItems[k].productId # click.productId /\ cartItems[k].quantity = 2

====
